---- MODULE Spec2Model ----
(***************************************************************************)
(* Model of the bobarista form-flow engine: FormValues (values.go), the    *)
(* Navigator (navigator.go) and the Bobarista session controller           *)
(* (pkg/bobarista/bobarista.go).                                           *)
(*                                                                         *)
(* Go indices are 0-based: form i of the Go slice is forms[i+1] here.      *)
(* Host callbacks (Generator, OnComplete, ShouldSkip, NextForm, OnInit,    *)
(* flow OnComplete) are drawn from small sets of representative            *)
(* behaviours, named by a string or an integer in the form record.         *)
(***************************************************************************)
EXTENDS Integers, Sequences, FiniteSets, TLC

\* ------------------------------------------------------------------ bounds
MaxForms == 3          \* flows have 0..MaxForms steps
MaxSpecial == 2        \* at most this many steps carry callbacks beyond a plain Generator
MaxCompletions == 3    \* widget completions per session (jump-back loops are unbounded)
MaxNavForms == 2       \* steps of a Navigator driven directly
MaxHistory == 2        \* history length reached by direct Navigator operations
MaxValidateForms == 3  \* steps of a flow handed to ValidateNavigation

\* ------------------------------------------------------------ value stores
Keys == {"t", "v"}
Vals == {"1", "2"}
NULL == "nil"          \* a key that exists with a nil *string

EmptyStore == [k \in {} |-> NULL]

NewFormValues == EmptyStore

Set(fv, key, value) == [k \in (DOMAIN fv) \cup {key} |-> IF k = key THEN value ELSE fv[k]]

\* Mutant: a key with a nil value is found.
GetFindsNull(fv, key) ==
    IF key \in DOMAIN fv
    THEN [value |-> IF fv[key] # NULL THEN fv[key] ELSE "", found |-> TRUE]
    ELSE [value |-> "", found |-> FALSE]

Get(fv, key) ==
    IF key \in DOMAIN fv /\ fv[key] # NULL
    THEN [value |-> fv[key], found |-> TRUE]
    ELSE [value |-> "", found |-> FALSE]

Has(fv, key) == key \in DOMAIN fv

Delete(fv, key) == [k \in (DOMAIN fv) \ {key} |-> fv[k]]

Copy(fv) == [k \in DOMAIN fv |-> fv[k]]

\* Mutant: existing keys keep their value.
MergeKeepSelf(fv, other) ==
    [k \in (DOMAIN fv) \cup (DOMAIN other) |-> IF k \in DOMAIN fv THEN fv[k] ELSE other[k]]

\* Mutant: nil values of other are passed over.
MergeSkipsNull(fv, other) ==
    [k \in (DOMAIN fv) \cup (DOMAIN other) |->
        IF k \in DOMAIN other /\ (other[k] # NULL \/ k \notin DOMAIN fv) THEN other[k] ELSE fv[k]]

\* Mutant: nothing is copied.
MergeNothing(fv, other) == fv

Merge(fv, other) ==
    [k \in (DOMAIN fv) \cup (DOMAIN other) |-> IF k \in DOMAIN other THEN other[k] ELSE fv[k]]

NewFormData(id) == [ID |-> id, Values |-> NewFormValues]

\* ------------------------------------------------------------------ errors
\* An error value: type "nil" (no error), "error" (errors.New) or
\* "CupSleeveError" (FormID + message of the wrapped error).
NoError == [type |-> "nil", FormID |-> "", Err |-> ""]
PlainError(msg) == [type |-> "error", FormID |-> "", Err |-> msg]

ErrInvalidFormIndex == PlainError("invalid form index")
ErrNoValidForms == PlainError("no valid forms found")
ErrNoGenerator == PlainError("form generator is required")
ErrNilForm == PlainError("form generator returned nil")
ErrNoFormsProvided == PlainError("no forms provided")
ErrEmptyFormID == PlainError("form ID cannot be empty")

NewCupSleeveError(formID, err) == [type |-> "CupSleeveError", FormID |-> formID, Err |-> err.Err]

\* DuplicateFormIDError, with the message its Error method formats.
NewDuplicateFormIDError(id, firstIndex, secondIndex) ==
    [type |-> "DuplicateFormIDError", FormID |-> "",
     Err |-> "duplicate form ID '" \o id \o "' found at indices "
               \o ToString(firstIndex) \o " and " \o ToString(secondIndex)]

\* ------------------------------------------------------------------- forms
\* Generator:  "none" (nil func) | "nil" (returns a nil *huh.Form) | "ok"
\* OnComplete: "none" | "ok" | "setG" (global.Values.Set("t","1"))
\*             | "err" (returns errors.New("invalid"))
\*             | "errCS" (returns CupSleeveError{"Z", errors.New("invalid")})
\* ShouldSkip: "none" | "always" | "never" | "gNoT" (global lacks a value for "t")
\*             | "lHasV" (the step data passed in has key "v")
\* NextForm:   NoNextForm (nil func) | NavConst(r) (the function returns r)
NoNextForm == [nil |-> TRUE, ret |-> 0]
NavConst(r) == [nil |-> FALSE, ret |-> r]

NewForm(id) ==
    [ID |-> id, Generator |-> "none", OnComplete |-> "none",
     ShouldSkip |-> "none", NextForm |-> NoNextForm]

\* The nil *Form returned by Current when there is no current form.
NilForm == [ID |-> "<nil>", Generator |-> "none", OnComplete |-> "none",
            ShouldSkip |-> "none", NextForm |-> NoNextForm]

HandlerError == PlainError("invalid")
HandlerCupSleeveError == NewCupSleeveError("Z", PlainError("invalid"))

\* The SkipCondition of a form applied to (current, global).
CallShouldSkip(form, current, global) ==
    CASE form.ShouldSkip = "always" -> TRUE
      [] form.ShouldSkip = "never" -> FALSE
      [] form.ShouldSkip = "gNoT" -> ~Get(global.Values, "t").found
      [] form.ShouldSkip = "lHasV" -> Has(current.Values, "v")
      [] OTHER -> FALSE

\* The NavigationHandler of a form applied to the data record it is handed.
CallNextForm(form, data) == form.NextForm.ret

\* The CompletionHandler of a form applied to (current, global): the
\* stores as the handler leaves them and the error it returns.
CallOnComplete(form, current, global) ==
    CASE form.OnComplete = "setG" ->
            [current |-> current, global |-> Set(global, "t", "1"), err |-> NoError]
      [] form.OnComplete = "err" ->
            [current |-> current, global |-> global, err |-> HandlerError]
      [] form.OnComplete = "errCS" ->
            [current |-> current, global |-> global, err |-> HandlerCupSleeveError]
      [] OTHER ->
            [current |-> current, global |-> global, err |-> NoError]

\* ------------------------------------------------------- callback trace
\* One entry per callback invocation made by a handler, in call order:
\*   "skip"       ShouldSkip called by findNextValidForm
\*   "skipInit"   ShouldSkip called by initCurrentForm
\*   "nav"        NextForm called by Navigator.Next (local = global = the data passed)
\*   "nextRet"    Navigator.Next returned res to the controller
\*   "gen"        Generator called (res = 1 iff it returned a widget)
\*   "onComplete" a step's OnComplete called (res = 1 iff it returned nil)
\*   "merge"      local merged into global.Values (global = the values before)
\*   "onInit"     the Recipe's OnInit called (local = the list of per-step data)
\*   "onFinish"   the Recipe's OnComplete called (res = 1 iff it returned nil)
Ev(ev, form, id, local, global, res) ==
    [ev |-> ev, form |-> form, id |-> id, local |-> local, global |-> global, res |-> res]

BoolInt(b) == IF b THEN 1 ELSE 0

\* F applied to the value of d: d is computed once, however often F uses it.
With(d, F(_)) == CHOOSE r \in {F(x) : x \in {d}} : TRUE

\* --------------------------------------------------------------- navigator
\* A navigator value n: [forms, currentIdx, history].
NewNavigator(fs) == [forms |-> fs, currentIdx |-> -1, history |-> <<>>]

Current(n) ==
    IF n.currentIdx >= 0 /\ n.currentIdx < Len(n.forms)
    THEN n.forms[n.currentIdx + 1]
    ELSE NilForm

\* Mutant: the skip condition is not negated.
RECURSIVE findNextValidFormInverted(_, _, _)
findNextValidFormInverted(n, startIdx, globalData) ==
    IF startIdx >= Len(n.forms)
    THEN [n |-> n, idx |-> -1, err |-> NoError, calls |-> <<>>]
    ELSE LET form == n.forms[startIdx + 1]
             tempData == [ID |-> form.ID, Values |-> NewFormValues]
         IN IF form.ShouldSkip = "none"
            THEN [n |-> n, idx |-> startIdx, err |-> NoError, calls |-> <<>>]
            ELSE LET skip == CallShouldSkip(form, tempData, globalData)
                     call == Ev("skip", startIdx, tempData.ID, tempData.Values,
                                globalData.Values, BoolInt(skip))
                 IN IF skip
                    THEN [n |-> n, idx |-> startIdx, err |-> NoError, calls |-> <<call>>]
                    ELSE With(findNextValidFormInverted(n, startIdx + 1, globalData),
                              LAMBDA rest : [n |-> rest.n, idx |-> rest.idx, err |-> rest.err,
                                             calls |-> <<call>> \o rest.calls])

\* Mutant: the predicate is handed the global values as the step's own.
RECURSIVE findNextValidFormGlobalAsLocal(_, _, _)
findNextValidFormGlobalAsLocal(n, startIdx, globalData) ==
    IF startIdx >= Len(n.forms)
    THEN [n |-> n, idx |-> -1, err |-> NoError, calls |-> <<>>]
    ELSE LET form == n.forms[startIdx + 1]
             tempData == [ID |-> form.ID, Values |-> globalData.Values]
         IN IF form.ShouldSkip = "none"
            THEN [n |-> n, idx |-> startIdx, err |-> NoError, calls |-> <<>>]
            ELSE LET skip == CallShouldSkip(form, tempData, globalData)
                     call == Ev("skip", startIdx, tempData.ID, tempData.Values,
                                globalData.Values, BoolInt(skip))
                 IN IF ~skip
                    THEN [n |-> n, idx |-> startIdx, err |-> NoError, calls |-> <<call>>]
                    ELSE With(findNextValidFormGlobalAsLocal(n, startIdx + 1, globalData),
                              LAMBDA rest : [n |-> rest.n, idx |-> rest.idx, err |-> rest.err,
                                             calls |-> <<call>> \o rest.calls])

\* findNextValidForm: [n, idx, err, calls]; n is the Navigator as the search
\* leaves it, calls lists the skip predicates evaluated, each with the data
\* it was given.
RECURSIVE findNextValidForm(_, _, _)
findNextValidForm(n, startIdx, globalData) ==
    IF startIdx >= Len(n.forms)
    THEN [n |-> n, idx |-> -1, err |-> NoError, calls |-> <<>>]
    ELSE LET form == n.forms[startIdx + 1]
             tempData == [ID |-> form.ID, Values |-> NewFormValues]
         IN IF form.ShouldSkip = "none"
            THEN [n |-> n, idx |-> startIdx, err |-> NoError, calls |-> <<>>]
            ELSE LET skip == CallShouldSkip(form, tempData, globalData)
                     call == Ev("skip", startIdx, tempData.ID, tempData.Values,
                                globalData.Values, BoolInt(skip))
                 IN IF ~skip
                    THEN [n |-> n, idx |-> startIdx, err |-> NoError, calls |-> <<call>>]
                    ELSE With(findNextValidForm(n, startIdx + 1, globalData),
                              LAMBDA rest : [n |-> rest.n, idx |-> rest.idx, err |-> rest.err,
                                             calls |-> <<call>> \o rest.calls])

\* Mutant: every negative result of the function selects the default search.
NavNextNegativeDefault(n, data) ==
    LET current == Current(n)
    IN IF current = NilForm
       THEN findNextValidForm(n, 0, data)
       ELSE IF ~current.NextForm.nil
            THEN LET nextIdx == CallNextForm(current, data)
                     call == Ev("nav", n.currentIdx, data.ID, data.Values, data.Values, nextIdx)
                 IN IF nextIdx < 0
                    THEN With(findNextValidForm(n, n.currentIdx + 1, data),
                              LAMBDA r : [n |-> r.n, idx |-> r.idx, err |-> r.err,
                                          calls |-> <<call>> \o r.calls])
                    ELSE [n |-> n, idx |-> nextIdx, err |-> NoError, calls |-> <<call>>]
            ELSE findNextValidForm(n, n.currentIdx + 1, data)

\* Mutant: an out-of-range result of the function is rejected.
NavNextValidates(n, data) ==
    LET current == Current(n)
    IN IF current = NilForm
       THEN findNextValidForm(n, 0, data)
       ELSE IF ~current.NextForm.nil
            THEN LET nextIdx == CallNextForm(current, data)
                     call == Ev("nav", n.currentIdx, data.ID, data.Values, data.Values, nextIdx)
                 IN IF nextIdx = -1
                    THEN With(findNextValidForm(n, n.currentIdx + 1, data),
                              LAMBDA r : [n |-> r.n, idx |-> r.idx, err |-> r.err,
                                          calls |-> <<call>> \o r.calls])
                    ELSE IF nextIdx >= Len(n.forms)
                    THEN [n |-> n, idx |-> -1, err |-> ErrInvalidFormIndex, calls |-> <<call>>]
                    ELSE [n |-> n, idx |-> nextIdx, err |-> NoError, calls |-> <<call>>]
            ELSE findNextValidForm(n, n.currentIdx + 1, data)

\* Mutant: the default search starts at the current step.
NavNextFromCurrent(n, data) ==
    LET current == Current(n)
    IN IF current = NilForm
       THEN findNextValidForm(n, 0, data)
       ELSE IF ~current.NextForm.nil
            THEN LET nextIdx == CallNextForm(current, data)
                     call == Ev("nav", n.currentIdx, data.ID, data.Values, data.Values, nextIdx)
                 IN IF nextIdx = -1
                    THEN With(findNextValidForm(n, n.currentIdx, data),
                              LAMBDA r : [n |-> r.n, idx |-> r.idx, err |-> r.err,
                                          calls |-> <<call>> \o r.calls])
                    ELSE [n |-> n, idx |-> nextIdx, err |-> NoError, calls |-> <<call>>]
            ELSE findNextValidForm(n, n.currentIdx, data)

\* Mutant: Next makes the step it returns current.
NavNextAdvances(n, data) ==
    With(
    LET current == Current(n)
    IN IF current = NilForm
       THEN findNextValidForm(n, 0, data)
       ELSE IF ~current.NextForm.nil
            THEN LET nextIdx == CallNextForm(current, data)
                     call == Ev("nav", n.currentIdx, data.ID, data.Values, data.Values, nextIdx)
                 IN IF nextIdx = -1
                    THEN With(findNextValidForm(n, n.currentIdx + 1, data),
                              LAMBDA r : [n |-> r.n, idx |-> r.idx, err |-> r.err,
                                          calls |-> <<call>> \o r.calls])
                    ELSE [n |-> n, idx |-> nextIdx, err |-> NoError, calls |-> <<call>>]
            ELSE findNextValidForm(n, n.currentIdx + 1, data),
    LAMBDA r : IF r.idx >= 0 /\ r.idx < Len(n.forms)
               THEN [r EXCEPT !.n.currentIdx = r.idx]
               ELSE r)

\* Next: [n, idx, err, calls]; n is the Navigator as the call leaves it.
NavNext(n, data) ==
    LET current == Current(n)
    IN IF current = NilForm
       THEN findNextValidForm(n, 0, data)
       ELSE IF ~current.NextForm.nil
            THEN LET nextIdx == CallNextForm(current, data)
                     call == Ev("nav", n.currentIdx, data.ID, data.Values, data.Values, nextIdx)
                 IN IF nextIdx = -1
                    THEN With(findNextValidForm(n, n.currentIdx + 1, data),
                              LAMBDA r : [n |-> r.n, idx |-> r.idx, err |-> r.err,
                                          calls |-> <<call>> \o r.calls])
                    ELSE [n |-> n, idx |-> nextIdx, err |-> NoError, calls |-> <<call>>]
            ELSE findNextValidForm(n, n.currentIdx + 1, data)

\* Mutant: only the upper bound is validated.
MoveToNoLowerBound(n, index) ==
    IF index >= Len(n.forms)
    THEN [n |-> n, err |-> ErrInvalidFormIndex]
    ELSE [n |-> [n EXCEPT !.history = IF n.currentIdx >= 0
                                      THEN Append(n.history, n.currentIdx)
                                      ELSE n.history,
                          !.currentIdx = index],
          err |-> NoError]

\* Mutant: the previous index is pushed even when there was none.
MoveToAlwaysPushes(n, index) ==
    IF index < 0 \/ index >= Len(n.forms)
    THEN [n |-> n, err |-> ErrInvalidFormIndex]
    ELSE [n |-> [n EXCEPT !.history = Append(n.history, n.currentIdx),
                          !.currentIdx = index],
          err |-> NoError]

\* Mutant: the history is pushed before the index is validated.
MoveToPushFirst(n, index) ==
    LET pushed == [n EXCEPT !.history = IF n.currentIdx >= 0
                                        THEN Append(n.history, n.currentIdx)
                                        ELSE n.history]
    IN IF index < 0 \/ index >= Len(n.forms)
       THEN [n |-> pushed, err |-> ErrInvalidFormIndex]
       ELSE [n |-> [pushed EXCEPT !.currentIdx = index], err |-> NoError]

\* MoveTo: [n, err].
MoveTo(n, index) ==
    IF index < 0 \/ index >= Len(n.forms)
    THEN [n |-> n, err |-> ErrInvalidFormIndex]
    ELSE [n |-> [n EXCEPT !.history = IF n.currentIdx >= 0
                                      THEN Append(n.history, n.currentIdx)
                                      ELSE n.history,
                          !.currentIdx = index],
          err |-> NoError]

\* Mutant: finding no step is not an error.
MoveToFirstValidNoError(n, globalData) ==
    With(findNextValidForm(n, 0, globalData),
         LAMBDA r :
            IF r.err # NoError
            THEN [n |-> n, err |-> r.err, calls |-> r.calls]
            ELSE IF r.idx = -1
                 THEN [n |-> n, err |-> NoError, calls |-> r.calls]
                 ELSE [n |-> [n EXCEPT !.currentIdx = r.idx], err |-> NoError,
                       calls |-> r.calls])

\* Mutant: the index left behind is pushed onto the history, as MoveTo does.
MoveToFirstValidPushes(n, globalData) ==
    With(findNextValidForm(n, 0, globalData),
         LAMBDA r :
            IF r.err # NoError
            THEN [n |-> n, err |-> r.err, calls |-> r.calls]
            ELSE IF r.idx = -1
                 THEN [n |-> n, err |-> ErrNoValidForms, calls |-> r.calls]
                 ELSE [n |-> [n EXCEPT !.history = IF n.currentIdx >= 0
                                                   THEN Append(n.history, n.currentIdx)
                                                   ELSE n.history,
                                       !.currentIdx = r.idx],
                       err |-> NoError, calls |-> r.calls])

\* MoveToFirstValid: [n, err, calls].
MoveToFirstValid(n, globalData) ==
    With(findNextValidForm(n, 0, globalData),
         LAMBDA r :
            IF r.err # NoError
            THEN [n |-> n, err |-> r.err, calls |-> r.calls]
            ELSE IF r.idx = -1
                 THEN [n |-> n, err |-> ErrNoValidForms, calls |-> r.calls]
                 ELSE [n |-> [n EXCEPT !.currentIdx = r.idx], err |-> NoError,
                       calls |-> r.calls])

\* ValidateNavigation's first loop from index i on: idMap maps the IDs seen to
\* the index recorded for them, errs are the errors so far.
RECURSIVE ValidateIDsLatest(_, _, _, _)
RECURSIVE ValidateIDs(_, _, _, _)

\* Mutant: a repeated ID replaces the index recorded for it.
ValidateIDsLatest(fs, i, idMap, errs) ==
    IF i >= Len(fs) THEN errs
    ELSE LET form == fs[i + 1] IN
         IF form.ID = ""
         THEN ValidateIDsLatest(fs, i + 1, idMap,
                                Append(errs, NewCupSleeveError("", ErrEmptyFormID)))
         ELSE IF form.ID \in DOMAIN idMap
         THEN ValidateIDsLatest(fs, i + 1, Set(idMap, form.ID, i),
                   Append(errs, NewCupSleeveError(form.ID,
                       NewDuplicateFormIDError(form.ID, idMap[form.ID], i))))
         ELSE ValidateIDsLatest(fs, i + 1, Set(idMap, form.ID, i), errs)

ValidateIDs(fs, i, idMap, errs) ==
    IF i >= Len(fs) THEN errs
    ELSE LET form == fs[i + 1] IN
         IF form.ID = ""
         THEN ValidateIDs(fs, i + 1, idMap,
                          Append(errs, NewCupSleeveError("", ErrEmptyFormID)))
         ELSE IF form.ID \in DOMAIN idMap
         THEN ValidateIDs(fs, i + 1, idMap,
                   Append(errs, NewCupSleeveError(form.ID,
                       NewDuplicateFormIDError(form.ID, idMap[form.ID], i))))
         ELSE ValidateIDs(fs, i + 1, Set(idMap, form.ID, i), errs)

\* ValidateNavigation's second loop.
ValidateGenerators(fs) ==
    LET missing == SelectSeq(fs, LAMBDA form : form.Generator = "none")
    IN [k \in 1..Len(missing) |-> NewCupSleeveError(missing[k].ID, ErrNoGenerator)]

\* ValidateNavigation: the errors found, in the order they are appended.
ValidateNavigation(n) ==
    IF Len(n.forms) = 0 THEN <<ErrNoFormsProvided>>
    ELSE ValidateIDs(n.forms, 0, EmptyStore, <<>>) \o ValidateGenerators(n.forms)

\* Mutant: the entry gone back to stays on the history.
BackKeepsEntry(n) ==
    IF Len(n.history) = 0
    THEN [n |-> n, ok |-> FALSE]
    ELSE [n |-> [n EXCEPT !.currentIdx = n.history[Len(n.history)]], ok |-> TRUE]

\* Back: [n, ok].
Back(n) ==
    IF Len(n.history) = 0
    THEN [n |-> n, ok |-> FALSE]
    ELSE [n |-> [n EXCEPT !.currentIdx = n.history[Len(n.history)],
                          !.history = SubSeq(n.history, 1, Len(n.history) - 1)],
          ok |-> TRUE]

\* Mutant: the last step still has a next one.
HasNextAtLast(n) == n.currentIdx < Len(n.forms)

HasNext(n) == n.currentIdx < Len(n.forms) - 1

HasPrevious(n) == Len(n.history) > 0

GetFormCount(n) == Len(n.forms)

GetCurrentIndex(n) == n.currentIdx

\* Mutant: the history survives.
ResetKeepsHistory(n) == [n EXCEPT !.currentIdx = -1]

Reset(n) == [n EXCEPT !.currentIdx = -1, !.history = <<>>]

\* ------------------------------------------------------------- controller
StateActive == "Active"
StateCompleted == "Completed"
StateError == "Error"

\* A *huh.Form: the step whose Generator produced it and its State.
NilWidget == [form |-> -1, id |-> "", State |-> "nil"]
NewWidget(idx, id) == [form |-> idx, id |-> id, State |-> "normal"]

\* A Bobarista value f: [navigator, globalData, formValues, currentForm,
\* state, errors] plus what the handler being run has called (trace) and
\* whether it failed to return (diverged).
Build(fs) ==
    [navigator |-> NewNavigator(fs),
     globalData |-> [ID |-> "global", Values |-> NewFormValues],
     formValues |-> [i \in {} |-> EmptyStore],
     currentForm |-> NilWidget,
     state |-> StateActive,
     errors |-> <<>>,
     trace |-> <<>>,
     diverged |-> FALSE]

\* Mutant: the error is recorded but the state is left as it was.
addErrorKeepState(f, formID, err) ==
    [f EXCEPT !.errors = Append(f.errors,
                                IF err.type = "CupSleeveError"
                                THEN err
                                ELSE NewCupSleeveError(formID, err))]

\* Mutant: the error is recorded without the step's ID.
addErrorDropsID(f, formID, err) ==
    [f EXCEPT !.errors = Append(f.errors,
                                IF err.type = "CupSleeveError"
                                THEN err
                                ELSE NewCupSleeveError("", err)),
              !.state = StateError]

addError(f, formID, err) ==
    [f EXCEPT !.errors = Append(f.errors,
                                IF err.type = "CupSleeveError"
                                THEN err
                                ELSE NewCupSleeveError(formID, err)),
              !.state = StateError]

\* A nil *FormData.
NilFormData == [ID |-> "<nil>", Values |-> EmptyStore]

\* Mutant: the record returned holds a copy of the values.
GetGlobalDataCopies(f) ==
    IF f.globalData = NilFormData
    THEN [ID |-> "global", Values |-> NewFormValues, shared |-> FALSE]
    ELSE [ID |-> f.globalData.ID, Values |-> Copy(f.globalData.Values), shared |-> FALSE]

\* GetGlobalData: the FormData returned; shared tells whether its Values
\* pointer is the pointer held by f.globalData.
GetGlobalData(f) ==
    IF f.globalData = NilFormData
    THEN [ID |-> "global", Values |-> NewFormValues, shared |-> FALSE]
    ELSE [ID |-> f.globalData.ID, Values |-> f.globalData.Values, shared |-> TRUE]

RECURSIVE initCurrentForm(_, _)

\* Mutant: the Generator is required before the skip predicate is asked.
initCurrentFormGeneratorFirst(f, fuel) ==
    LET current == Current(f.navigator)
        idx == f.navigator.currentIdx
    IN
    IF current = NilForm THEN [f EXCEPT !.state = StateCompleted]
    ELSE IF fuel = 0 THEN [f EXCEPT !.diverged = TRUE]
    ELSE
    LET fv == IF current.ID \in DOMAIN f.formValues
              THEN f.formValues
              ELSE [i \in (DOMAIN f.formValues) \cup {current.ID} |->
                        IF i = current.ID THEN NewFormValues ELSE f.formValues[i]]
        currentValues == fv[current.ID]
        currentData == [ID |-> current.ID, Values |-> currentValues]
        hasSkip == current.ShouldSkip # "none"
        shouldSkip == hasSkip /\ CallShouldSkip(current, currentData, f.globalData)
        skipCall == Ev("skipInit", idx, currentData.ID, currentData.Values,
                       f.globalData.Values, BoolInt(shouldSkip))
    IN
    IF current.Generator = "none"
    THEN addError([f EXCEPT !.formValues = fv], current.ID,
                  NewCupSleeveError(current.ID, ErrNoGenerator))
    ELSE
    With([f EXCEPT !.formValues = fv,
                   !.trace = IF hasSkip THEN Append(f.trace, skipCall) ELSE f.trace],
         LAMBDA f2 :
    IF shouldSkip
    THEN With(NavNext(f2.navigator, f2.globalData), LAMBDA nx :
         With([f2 EXCEPT !.trace = f2.trace \o nx.calls \o
                    <<Ev("nextRet", idx, current.ID, EmptyStore, f2.globalData.Values,
                         nx.idx)>>],
              LAMBDA f3 :
            IF nx.err # NoError THEN addError(f3, current.ID, nx.err)
            ELSE IF nx.idx = -1 \/ nx.idx = -2 THEN [f3 EXCEPT !.state = StateCompleted]
            ELSE With(MoveTo(f3.navigator, nx.idx), LAMBDA mv :
                    IF mv.err # NoError THEN addError(f3, current.ID, mv.err)
                    ELSE initCurrentForm([f3 EXCEPT !.navigator = mv.n], fuel - 1))))
    ELSE IF current.Generator = "none"
    THEN addError(f2, current.ID, NewCupSleeveError(current.ID, ErrNoGenerator))
    ELSE LET widget == IF current.Generator = "nil" THEN NilWidget
                       ELSE NewWidget(idx, current.ID)
             f3 == [f2 EXCEPT !.currentForm = widget,
                              !.trace = Append(f2.trace,
                                   Ev("gen", idx, current.ID, currentValues,
                                      f2.globalData.Values, BoolInt(widget # NilWidget)))]
         IN IF widget = NilWidget
            THEN addError(f3, current.ID, NewCupSleeveError(current.ID, ErrNilForm))
            ELSE f3)

\* Mutant: the step moved to is never asked whether it is to be skipped.
initCurrentFormNoSkipCheck(f, fuel) ==
    LET current == Current(f.navigator)
        idx == f.navigator.currentIdx
    IN
    IF current = NilForm THEN [f EXCEPT !.state = StateCompleted]
    ELSE IF fuel = 0 THEN [f EXCEPT !.diverged = TRUE]
    ELSE
    LET fv == IF current.ID \in DOMAIN f.formValues
              THEN f.formValues
              ELSE [i \in (DOMAIN f.formValues) \cup {current.ID} |->
                        IF i = current.ID THEN NewFormValues ELSE f.formValues[i]]
        currentValues == fv[current.ID]
        currentData == [ID |-> current.ID, Values |-> currentValues]
        hasSkip == FALSE
        shouldSkip == FALSE
        skipCall == Ev("skipInit", idx, currentData.ID, currentData.Values,
                       f.globalData.Values, BoolInt(shouldSkip))
    IN
    With([f EXCEPT !.formValues = fv,
                   !.trace = IF hasSkip THEN Append(f.trace, skipCall) ELSE f.trace],
         LAMBDA f2 :
    IF shouldSkip
    THEN With(NavNext(f2.navigator, f2.globalData), LAMBDA nx :
         With([f2 EXCEPT !.trace = f2.trace \o nx.calls \o
                    <<Ev("nextRet", idx, current.ID, EmptyStore, f2.globalData.Values,
                         nx.idx)>>],
              LAMBDA f3 :
            IF nx.err # NoError THEN addError(f3, current.ID, nx.err)
            ELSE IF nx.idx = -1 \/ nx.idx = -2 THEN [f3 EXCEPT !.state = StateCompleted]
            ELSE With(MoveTo(f3.navigator, nx.idx), LAMBDA mv :
                    IF mv.err # NoError THEN addError(f3, current.ID, mv.err)
                    ELSE initCurrentForm([f3 EXCEPT !.navigator = mv.n], fuel - 1))))
    ELSE IF current.Generator = "none"
    THEN addError(f2, current.ID, NewCupSleeveError(current.ID, ErrNoGenerator))
    ELSE LET widget == IF current.Generator = "nil" THEN NilWidget
                       ELSE NewWidget(idx, current.ID)
             f3 == [f2 EXCEPT !.currentForm = widget,
                              !.trace = Append(f2.trace,
                                   Ev("gen", idx, current.ID, currentValues,
                                      f2.globalData.Values, BoolInt(widget # NilWidget)))]
         IN IF widget = NilWidget
            THEN addError(f3, current.ID, NewCupSleeveError(current.ID, ErrNilForm))
            ELSE f3)

\* Mutant: the skip predicate is handed an empty store, as the search does.
initCurrentFormEmptySnapshot(f, fuel) ==
    LET current == Current(f.navigator)
        idx == f.navigator.currentIdx
    IN
    IF current = NilForm THEN [f EXCEPT !.state = StateCompleted]
    ELSE IF fuel = 0 THEN [f EXCEPT !.diverged = TRUE]
    ELSE
    LET fv == IF current.ID \in DOMAIN f.formValues
              THEN f.formValues
              ELSE [i \in (DOMAIN f.formValues) \cup {current.ID} |->
                        IF i = current.ID THEN NewFormValues ELSE f.formValues[i]]
        currentValues == fv[current.ID]
        currentData == [ID |-> current.ID, Values |-> NewFormValues]
        hasSkip == current.ShouldSkip # "none"
        shouldSkip == hasSkip /\ CallShouldSkip(current, currentData, f.globalData)
        skipCall == Ev("skipInit", idx, currentData.ID, currentData.Values,
                       f.globalData.Values, BoolInt(shouldSkip))
    IN
    With([f EXCEPT !.formValues = fv,
                   !.trace = IF hasSkip THEN Append(f.trace, skipCall) ELSE f.trace],
         LAMBDA f2 :
    IF shouldSkip
    THEN With(NavNext(f2.navigator, f2.globalData), LAMBDA nx :
         With([f2 EXCEPT !.trace = f2.trace \o nx.calls \o
                    <<Ev("nextRet", idx, current.ID, EmptyStore, f2.globalData.Values,
                         nx.idx)>>],
              LAMBDA f3 :
            IF nx.err # NoError THEN addError(f3, current.ID, nx.err)
            ELSE IF nx.idx = -1 \/ nx.idx = -2 THEN [f3 EXCEPT !.state = StateCompleted]
            ELSE With(MoveTo(f3.navigator, nx.idx), LAMBDA mv :
                    IF mv.err # NoError THEN addError(f3, current.ID, mv.err)
                    ELSE initCurrentForm([f3 EXCEPT !.navigator = mv.n], fuel - 1))))
    ELSE IF current.Generator = "none"
    THEN addError(f2, current.ID, NewCupSleeveError(current.ID, ErrNoGenerator))
    ELSE LET widget == IF current.Generator = "nil" THEN NilWidget
                       ELSE NewWidget(idx, current.ID)
             f3 == [f2 EXCEPT !.currentForm = widget,
                              !.trace = Append(f2.trace,
                                   Ev("gen", idx, current.ID, currentValues,
                                      f2.globalData.Values, BoolInt(widget # NilWidget)))]
         IN IF widget = NilWidget
            THEN addError(f3, current.ID, NewCupSleeveError(current.ID, ErrNilForm))
            ELSE f3)

\* initCurrentForm; fuel counts the nested calls still allowed. The stores
\* do not change between nested calls, so a chain of more than Len(forms)
\* skipped steps revisits a step and never returns.
initCurrentForm(f, fuel) ==
    LET current == Current(f.navigator)
        idx == f.navigator.currentIdx
    IN
    IF current = NilForm THEN [f EXCEPT !.state = StateCompleted]
    ELSE IF fuel = 0 THEN [f EXCEPT !.diverged = TRUE]
    ELSE
    LET fv == IF current.ID \in DOMAIN f.formValues
              THEN f.formValues
              ELSE [i \in (DOMAIN f.formValues) \cup {current.ID} |->
                        IF i = current.ID THEN NewFormValues ELSE f.formValues[i]]
        currentValues == fv[current.ID]
        currentData == [ID |-> current.ID, Values |-> currentValues]
        hasSkip == current.ShouldSkip # "none"
        shouldSkip == hasSkip /\ CallShouldSkip(current, currentData, f.globalData)
        skipCall == Ev("skipInit", idx, currentData.ID, currentData.Values,
                       f.globalData.Values, BoolInt(shouldSkip))
    IN
    With([f EXCEPT !.formValues = fv,
                   !.trace = IF hasSkip THEN Append(f.trace, skipCall) ELSE f.trace],
         LAMBDA f2 :
    IF shouldSkip
    THEN With(NavNext(f2.navigator, f2.globalData), LAMBDA nx :
         With([f2 EXCEPT !.navigator = nx.n,
                         !.trace = f2.trace \o nx.calls \o
                    <<Ev("nextRet", idx, current.ID, EmptyStore, f2.globalData.Values,
                         nx.idx)>>],
              LAMBDA f3 :
            IF nx.err # NoError THEN addError(f3, current.ID, nx.err)
            ELSE IF nx.idx = -1 \/ nx.idx = -2 THEN [f3 EXCEPT !.state = StateCompleted]
            ELSE With(MoveTo(f3.navigator, nx.idx), LAMBDA mv :
                    IF mv.err # NoError THEN addError(f3, current.ID, mv.err)
                    ELSE initCurrentForm([f3 EXCEPT !.navigator = mv.n], fuel - 1))))
    ELSE IF current.Generator = "none"
    THEN addError(f2, current.ID, NewCupSleeveError(current.ID, ErrNoGenerator))
    ELSE LET widget == IF current.Generator = "nil" THEN NilWidget
                       ELSE NewWidget(idx, current.ID)
             f3 == [f2 EXCEPT !.currentForm = widget,
                              !.trace = Append(f2.trace,
                                   Ev("gen", idx, current.ID, currentValues,
                                      f2.globalData.Values, BoolInt(widget # NilWidget)))]
         IN IF widget = NilWidget
            THEN addError(f3, current.ID, NewCupSleeveError(current.ID, ErrNilForm))
            ELSE f3)

InitFuel(f) == Len(f.navigator.forms) + 1

\* The list Init hands to OnInit: one record per step, in step order, each
\* with the step's ID and a fresh empty store.
InitFormDataList(fs) == [i \in 1..Len(fs) |-> [ID |-> fs[i].ID, Values |-> NewFormValues]]

\* Mutant: the first step is searched for before OnInit is called.
BobaInitSearchFirst(f, onInit) ==
    With(MoveToFirstValid(f.navigator, f.globalData), LAMBDA mv :
    With(IF onInit = "setG"
         THEN [f EXCEPT !.globalData.Values = Set(f.globalData.Values, "t", "1"),
                        !.trace = Append(f.trace,
                             Ev("onInit", -1, "", InitFormDataList(f.navigator.forms),
                                f.globalData.Values, Len(f.navigator.forms)))]
         ELSE f,
         LAMBDA f1 :
    With([f1 EXCEPT !.trace = f1.trace \o mv.calls], LAMBDA f2 :
        IF mv.err # NoError
        THEN addError(f2, "", mv.err)
        ELSE initCurrentForm([f2 EXCEPT !.navigator = mv.n], InitFuel(f2)))))

\* Init: onInit is the Recipe's OnInit ("none" | "setG": sets global "t").
BobaInit(f, onInit) ==
    With(IF onInit = "setG"
         THEN [f EXCEPT !.globalData.Values = Set(f.globalData.Values, "t", "1"),
                        !.trace = Append(f.trace,
                             Ev("onInit", -1, "", InitFormDataList(f.navigator.forms),
                                f.globalData.Values, Len(f.navigator.forms)))]
         ELSE f,
         LAMBDA f1 :
    With(MoveToFirstValid(f1.navigator, f1.globalData), LAMBDA mv :
    With([f1 EXCEPT !.trace = f1.trace \o mv.calls], LAMBDA f2 :
        IF mv.err # NoError
        THEN addError(f2, "", mv.err)
        ELSE initCurrentForm([f2 EXCEPT !.navigator = mv.n], InitFuel(f2)))))

\* Mutant: the step moved to is not initialized; the old widget stays.
handleFormCompletionNoInit(f) ==
    LET current == Current(f.navigator)
        idx == f.navigator.currentIdx
    IN
    IF current = NilForm THEN [f EXCEPT !.state = StateCompleted]
    ELSE
    LET exists == current.ID \in DOMAIN f.formValues
        currentValues == IF exists THEN f.formValues[current.ID] ELSE NewFormValues
        hasHandler == current.OnComplete # "none"
    IN
    With(CallOnComplete(current, currentValues, f.globalData.Values), LAMBDA oc :
    \* the handler writes through the pointers it is handed
    With(IF hasHandler
         THEN [f EXCEPT !.globalData.Values = oc.global,
                        !.formValues = IF exists
                                       THEN [f.formValues EXCEPT ![current.ID] = oc.current]
                                       ELSE f.formValues,
                        !.trace = Append(f.trace,
                             Ev("onComplete", idx, current.ID, currentValues,
                                f.globalData.Values, BoolInt(oc.err = NoError)))]
         ELSE f,
         LAMBDA f1 :
    IF hasHandler /\ oc.err # NoError THEN addError(f1, current.ID, oc.err)
    ELSE
    With([f1 EXCEPT !.globalData.Values =
                Merge(f1.globalData.Values, IF hasHandler THEN oc.current ELSE currentValues),
                    !.trace = Append(f1.trace,
                         Ev("merge", idx, current.ID,
                            IF hasHandler THEN oc.current ELSE currentValues,
                            f1.globalData.Values, 1))],
         LAMBDA f2 :
    With(NavNext(f2.navigator, f2.globalData), LAMBDA nx :
    With([f2 EXCEPT !.trace = f2.trace \o nx.calls \o
               <<Ev("nextRet", idx, current.ID, EmptyStore, f2.globalData.Values, nx.idx)>>],
         LAMBDA f3 :
        IF nx.err # NoError THEN addError(f3, current.ID, nx.err)
        ELSE IF nx.idx = -2 THEN [f3 EXCEPT !.state = StateCompleted]
        ELSE IF nx.idx = -1 THEN [f3 EXCEPT !.state = StateCompleted]
        ELSE With(MoveTo(f3.navigator, nx.idx), LAMBDA mv :
                IF mv.err # NoError THEN addError(f3, current.ID, mv.err)
                ELSE [f3 EXCEPT !.navigator = mv.n]))))))

handleFormCompletion(f) ==
    LET current == Current(f.navigator)
        idx == f.navigator.currentIdx
    IN
    IF current = NilForm THEN [f EXCEPT !.state = StateCompleted]
    ELSE
    LET exists == current.ID \in DOMAIN f.formValues
        currentValues == IF exists THEN f.formValues[current.ID] ELSE NewFormValues
        hasHandler == current.OnComplete # "none"
    IN
    With(CallOnComplete(current, currentValues, f.globalData.Values), LAMBDA oc :
    \* the handler writes through the pointers it is handed
    With(IF hasHandler
         THEN [f EXCEPT !.globalData.Values = oc.global,
                        !.formValues = IF exists
                                       THEN [f.formValues EXCEPT ![current.ID] = oc.current]
                                       ELSE f.formValues,
                        !.trace = Append(f.trace,
                             Ev("onComplete", idx, current.ID, currentValues,
                                f.globalData.Values, BoolInt(oc.err = NoError)))]
         ELSE f,
         LAMBDA f1 :
    IF hasHandler /\ oc.err # NoError THEN addError(f1, current.ID, oc.err)
    ELSE
    With([f1 EXCEPT !.globalData.Values =
                Merge(f1.globalData.Values, IF hasHandler THEN oc.current ELSE currentValues),
                    !.trace = Append(f1.trace,
                         Ev("merge", idx, current.ID,
                            IF hasHandler THEN oc.current ELSE currentValues,
                            f1.globalData.Values, 1))],
         LAMBDA f2 :
    With(NavNext(f2.navigator, f2.globalData), LAMBDA nx :
    With([f2 EXCEPT !.navigator = nx.n,
                    !.trace = f2.trace \o nx.calls \o
               <<Ev("nextRet", idx, current.ID, EmptyStore, f2.globalData.Values, nx.idx)>>],
         LAMBDA f3 :
        IF nx.err # NoError THEN addError(f3, current.ID, nx.err)
        ELSE IF nx.idx = -2 THEN [f3 EXCEPT !.state = StateCompleted]
        ELSE IF nx.idx = -1 THEN [f3 EXCEPT !.state = StateCompleted]
        ELSE With(MoveTo(f3.navigator, nx.idx), LAMBDA mv :
                IF mv.err # NoError THEN addError(f3, current.ID, mv.err)
                ELSE initCurrentForm([f3 EXCEPT !.navigator = mv.n], InitFuel(f3))))))))

\* The widget's own Update: it stays as it is, or it becomes completed, having
\* written at most one value into the store its Generator was handed.
NoWrite == [key |-> "", val |-> ""]
WidgetReactions ==
    {[write |-> NoWrite, done |-> FALSE]} \cup
    {[write |-> w, done |-> TRUE] :
        w \in {NoWrite} \cup {[key |-> "v", val |-> x] : x \in Vals}}

\* f.currentForm.Update(msg): the widget takes the message; react is what it
\* does with it (a value it writes into its step's FormData, whether it
\* finishes).
widgetUpdate(f, react) ==
    LET w == f.currentForm
        fv == IF react.write # NoWrite /\ w.id \in DOMAIN f.formValues
              THEN [f.formValues EXCEPT ![w.id] = Set(f.formValues[w.id], react.write.key,
                                                      react.write.val)]
              ELSE f.formValues
        w1 == IF react.done THEN [w EXCEPT !.State = "completed"] ELSE w
    IN [f EXCEPT !.formValues = fv, !.currentForm = w1]

updateCurrentForm(f, react) ==
    IF f.currentForm = NilWidget THEN f
    ELSE With(widgetUpdate(f, react), LAMBDA f1 :
            IF f1.currentForm.State = "completed" THEN handleFormCompletion(f1) ELSE f1)

\* handleCompletedState: [f, quit]; finish is what the Recipe's OnComplete
\* does ("none": nil func, "ok": returns nil, "err": returns
\* errors.New("save failed"), "errCS": returns
\* CupSleeveError{"Z", errors.New("save failed")}).
FinishError(finish) ==
    IF finish = "errCS"
    THEN [type |-> "CupSleeveError", FormID |-> "Z", Err |-> "save failed"]
    ELSE PlainError("save failed")

FinishFails(finish) == finish \in {"err", "errCS"}

\* Mutant: the finish key in Error state starts the session again.
handleCompletedStateReactivates(f, key, finish) ==
    IF key \in {"up", "down"} THEN [f |-> f, quit |-> FALSE]
    ELSE IF key \in {"q", "esc"} THEN [f |-> f, quit |-> TRUE]
    ELSE IF key = "enter"
    THEN IF f.state = StateCompleted /\ finish # "none"
         THEN LET f1 == [f EXCEPT !.trace = Append(f.trace,
                              Ev("onFinish", -1, "", EmptyStore, f.globalData.Values,
                                 BoolInt(~FinishFails(finish))))]
              IN IF FinishFails(finish)
                 THEN [f |-> addError(f1, "", FinishError(finish)), quit |-> FALSE]
                 ELSE [f |-> f1, quit |-> TRUE]
         ELSE IF f.state = StateError
         THEN [f |-> [f EXCEPT !.state = StateActive], quit |-> FALSE]
         ELSE [f |-> f, quit |-> TRUE]
    ELSE [f |-> f, quit |-> FALSE]

\* Mutant: a failed flow-completion callback still quits.
handleCompletedStateQuitsOnError(f, key, finish) ==
    IF key \in {"up", "down"} THEN [f |-> f, quit |-> FALSE]
    ELSE IF key \in {"q", "esc"} THEN [f |-> f, quit |-> TRUE]
    ELSE IF key = "enter"
    THEN IF f.state = StateCompleted /\ finish # "none"
         THEN LET f1 == [f EXCEPT !.trace = Append(f.trace,
                              Ev("onFinish", -1, "", EmptyStore, f.globalData.Values,
                                 BoolInt(~FinishFails(finish))))]
              IN IF FinishFails(finish)
                 THEN [f |-> addError(f1, "", FinishError(finish)), quit |-> TRUE]
                 ELSE [f |-> f1, quit |-> TRUE]
         ELSE [f |-> f, quit |-> TRUE]
    ELSE [f |-> f, quit |-> FALSE]

\* Mutant: the flow-completion callback is called in Error state too.
handleCompletedStateCallsInError(f, key, finish) ==
    IF key \in {"up", "down"} THEN [f |-> f, quit |-> FALSE]
    ELSE IF key \in {"q", "esc"} THEN [f |-> f, quit |-> TRUE]
    ELSE IF key = "enter"
    THEN IF finish # "none"
         THEN LET f1 == [f EXCEPT !.trace = Append(f.trace,
                              Ev("onFinish", -1, "", EmptyStore, f.globalData.Values,
                                 BoolInt(~FinishFails(finish))))]
              IN IF FinishFails(finish)
                 THEN [f |-> addError(f1, "", FinishError(finish)), quit |-> FALSE]
                 ELSE [f |-> f1, quit |-> TRUE]
         ELSE [f |-> f, quit |-> TRUE]
    ELSE [f |-> f, quit |-> FALSE]

handleCompletedState(f, key, finish) ==
    IF key \in {"up", "down"} THEN [f |-> f, quit |-> FALSE]
    ELSE IF key \in {"q", "esc"} THEN [f |-> f, quit |-> TRUE]
    ELSE IF key = "enter"
    THEN IF f.state = StateCompleted /\ finish # "none"
         THEN LET f1 == [f EXCEPT !.trace = Append(f.trace,
                              Ev("onFinish", -1, "", EmptyStore, f.globalData.Values,
                                 BoolInt(~FinishFails(finish))))]
              IN IF FinishFails(finish)
                 THEN [f |-> addError(f1, "", FinishError(finish)), quit |-> FALSE]
                 ELSE [f |-> f1, quit |-> TRUE]
         ELSE [f |-> f, quit |-> TRUE]
    ELSE [f |-> f, quit |-> FALSE]

\* Mutant: messages reach the widget whatever the session state.
UpdateForwardsAlways(f, msg, react, finish) ==
    IF msg = "resize" /\ f.currentForm # NilWidget
    THEN [f |-> widgetUpdate(f, react), quit |-> FALSE]
    ELSE IF msg = "resize" THEN [f |-> f, quit |-> FALSE]
    ELSE IF msg # "other" /\ (f.state = StateCompleted \/ f.state = StateError)
    THEN handleCompletedState(f, msg, finish)
    ELSE IF msg \in {"ctrl+c", "esc"} THEN [f |-> f, quit |-> TRUE]
    ELSE IF f.currentForm # NilWidget
    THEN [f |-> updateCurrentForm(f, react), quit |-> FALSE]
    ELSE [f |-> f, quit |-> FALSE]

\* Update for a tea.KeyMsg (msg = the key string), a tea.WindowSizeMsg
\* ("resize") or any other message ("other"): [f, quit].  A resize goes to
\* the widget whatever the session state and returns without looking at the
\* widget's State; the renderer's part of it is UpdateSize, on the view.
Update(f, msg, react, finish) ==
    IF msg = "resize" /\ f.currentForm # NilWidget
    THEN [f |-> widgetUpdate(f, react), quit |-> FALSE]
    ELSE IF msg = "resize" THEN [f |-> f, quit |-> FALSE]
    ELSE IF msg # "other" /\ (f.state = StateCompleted \/ f.state = StateError)
    THEN handleCompletedState(f, msg, finish)
    ELSE IF msg \in {"ctrl+c", "esc"} THEN [f |-> f, quit |-> TRUE]
    ELSE IF f.state = StateActive /\ f.currentForm # NilWidget
    THEN [f |-> updateCurrentForm(f, react), quit |-> FALSE]
    ELSE [f |-> f, quit |-> FALSE]

\* ------------------------------------------------------------- renderer
max(a, b) == IF a > b THEN a ELSE b

min(a, b) == IF a < b THEN a ELSE b

\* A Viewport value v: [offset, height, content]; content is a sequence of
\* lines. The width plays no part in what is visible and is left out.
NewViewport == [offset |-> 0, height |-> 24, content |-> <<>>]

SetSize(v, height) == [v EXCEPT !.height = height]

SetContent(v, content) == [v EXCEPT !.content = content, !.offset = 0]

Scroll(v, delta) ==
    LET maxOffset == max(0, Len(v.content) - v.height)
    IN [v EXCEPT !.offset = max(0, min(maxOffset, v.offset + delta))]

\* VisibleContent: [lines, panic].  lines is content[start:end]; the slice
\* expression panics ("slice bounds out of range") when end < start, which a
\* negative height brings about, and then nothing is returned.
VisibleContent(v) ==
    IF Len(v.content) = 0 THEN [lines |-> <<>>, panic |-> FALSE]
    ELSE LET start == v.offset
             end == min(start + v.height, Len(v.content))
         IN IF start >= Len(v.content) THEN [lines |-> <<>>, panic |-> FALSE]
            ELSE IF end < start THEN [lines |-> <<>>, panic |-> TRUE]
            ELSE [lines |-> SubSeq(v.content, start + 1, end), panic |-> FALSE]

CanScrollUp(v) == v.offset > 0

CanScrollDown(v) == v.offset < Len(v.content) - v.height

\* A Renderer value r: [viewport, height].
NewRenderer == [viewport |-> NewViewport, height |-> 24]

UpdateSize(r, height) ==
    [r EXCEPT !.height = height - 4, !.viewport = SetSize(r.viewport, height - 4)]

HandleScroll(r, direction) == [r EXCEPT !.viewport = Scroll(r.viewport, direction)]

\* renderCompleted: [r, body, top, footer, panic]; lines is the completion
\* text split into lines, body the lines that are drawn, footer whether the
\* footer offers scrolling.  When VisibleContent panics the viewport has its
\* new content and nothing is drawn.
renderCompleted(r, lines) ==
    With(SetContent(r.viewport, lines), LAMBDA v :
        With(VisibleContent(v), LAMBDA visible :
            [r |-> [r EXCEPT !.viewport = v],
             body |-> visible.lines, top |-> v.offset,
             footer |-> ~visible.panic /\ (CanScrollUp(v) \/ CanScrollDown(v)),
             panic |-> visible.panic]))

\* The text renderError builds: a heading, an empty line, and a line per error.
ErrorText(errs) ==
    <<"The following errors occurred:", "">> \o
    [i \in 1..Len(errs) |->
        IF errs[i].type = "CupSleeveError" /\ errs[i].FormID # ""
        THEN "Form '" \o errs[i].FormID \o "': " \o errs[i].Err
        ELSE errs[i].Err]

\* renderError draws every line of the error text; it does not use the viewport.
renderError(r, errs) ==
    [r |-> r, body |-> ErrorText(errs), top |-> 0, footer |-> FALSE, panic |-> FALSE]

\* renderActive draws the widget; nothing of the viewport.
renderActive(r) ==
    [r |-> r, body |-> <<>>, top |-> 0, footer |-> FALSE, panic |-> FALSE]

\* Render, by session state.
Render(r, st, lines, errs) ==
    IF st = StateError THEN renderError(r, errs)
    ELSE IF st = StateCompleted THEN renderCompleted(r, lines)
    ELSE renderActive(r)

\* ------------------------------------------------------------ the flows
FormIDs == <<"A", "B", "C", "D", "E">>

Plain(id) == [NewForm(id) EXCEPT !.Generator = "ok"]

\* A step of the given kind at the given ID; "plain" has only a Generator.
FormOfKind(kind, id) ==
    LET p == Plain(id) IN
    CASE kind = "ocSetG" -> [p EXCEPT !.OnComplete = "setG"]
      [] kind = "ocErr" -> [p EXCEPT !.OnComplete = "err"]
      [] kind = "ocErrCS" -> [p EXCEPT !.OnComplete = "errCS"]
      [] kind = "skipAlways" -> [p EXCEPT !.ShouldSkip = "always"]
      [] kind = "skipNever" -> [p EXCEPT !.ShouldSkip = "never"]
      [] kind = "skipGNoT" -> [p EXCEPT !.ShouldSkip = "gNoT"]
      [] kind = "skipLHasVNav0" -> [p EXCEPT !.ShouldSkip = "lHasV", !.NextForm = NavConst(0)]
      [] kind = "skipAlwaysNav0" -> [p EXCEPT !.ShouldSkip = "always", !.NextForm = NavConst(0)]
      [] kind = "skipAlwaysNav7" -> [p EXCEPT !.ShouldSkip = "always", !.NextForm = NavConst(7)]
      [] kind = "skipAlwaysNavM2" -> [p EXCEPT !.ShouldSkip = "always", !.NextForm = NavConst(-2)]
      [] kind = "skipLHasV" -> [p EXCEPT !.ShouldSkip = "lHasV"]
      [] kind = "skipAlwaysNoGen" -> [p EXCEPT !.ShouldSkip = "always", !.Generator = "none"]
      [] kind = "genNone" -> [p EXCEPT !.Generator = "none"]
      [] kind = "genNil" -> [p EXCEPT !.Generator = "nil"]
      [] kind = "dupA" -> [p EXCEPT !.ID = "A"]
      [] kind = "navM3" -> [p EXCEPT !.NextForm = NavConst(-3)]
      [] kind = "navM2" -> [p EXCEPT !.NextForm = NavConst(-2)]
      [] kind = "navM1" -> [p EXCEPT !.NextForm = NavConst(-1)]
      [] kind = "nav0" -> [p EXCEPT !.NextForm = NavConst(0)]
      [] kind = "nav2" -> [p EXCEPT !.NextForm = NavConst(2)]
      [] kind = "nav7" -> [p EXCEPT !.NextForm = NavConst(7)]
      [] OTHER -> p

\* Steps with handlers, skip predicates and Generators of every sort, no
\* custom navigation.
SessionKinds ==
    {"ocSetG", "ocErr", "ocErrCS", "skipAlways", "skipNever", "skipGNoT",
     "skipAlwaysNoGen", "genNone", "genNil", "dupA"}

\* Steps with custom navigation, among steps that are skipped.
JumpKinds ==
    {"navM2", "navM1", "nav0", "nav2", "nav7", "skipAlways", "skipLHasVNav0",
     "skipAlwaysNav0"}

\* Steps that end the session in Error, among steps that are skipped or
\* jumped to.
FailKinds ==
    {"ocErr", "ocErrCS", "genNone", "genNil", "nav2", "skipAlwaysNoGen",
     "nav7", "navM3"}

\* Steps with handlers and predicates reading global data, in flows that
\* jump back.
MergeKinds == {"ocSetG", "ocErr", "skipGNoT", "skipAlways", "nav0", "dupA"}

\* Steps that are skipped when jumped to or come back to, with and without
\* custom navigation of their own.
SkipKinds ==
    {"nav0", "nav2", "skipAlways", "skipLHasV", "skipAlwaysNav7", "skipAlwaysNavM2"}

\* Flows of n steps over the given kinds with at most MaxSpecial non-plain steps.
FlowsOfLen(n, kinds) ==
    {[i \in 1..n |-> FormOfKind(ks[i], FormIDs[i])] :
        ks \in {k \in [1..n -> kinds \cup {"plain"}] :
                    Cardinality({i \in 1..n : k[i] # "plain"}) <= MaxSpecial}}

Flows(kinds, maxLen) == UNION {FlowsOfLen(n, kinds) : n \in 0..maxLen}

Specials(fs) == Cardinality({i \in 1..Len(fs) : fs[i] # Plain(FormIDs[i])})

\* The Recipe callbacks: OnInit "none" | "setG"; OnComplete "none" | "set".
Recipes == [OnInit : {"none", "setG"}, OnComplete : {"none", "set"}]

NoRecipe == [OnInit |-> "none", OnComplete |-> "none"]

RecipeSpecials(r) == BoolInt(r.OnInit # "none") + BoolInt(r.OnComplete # "none")

\* ------------------------------------------------------------------- state
VARIABLES
    forms,          \* Bobarista.forms / Navigator.forms
    recipe,         \* Bobarista.config callbacks
    currentIdx,     \* Navigator.currentIdx
    history,        \* Navigator.history
    globalData,     \* Bobarista.globalData
    formValues,     \* Bobarista.formValues
    currentForm,    \* Bobarista.currentForm
    state,          \* Bobarista.state
    errors,         \* Bobarista.errors
    started,        \* Init has run
    quit,           \* tea.Quit was returned
    diverged,       \* a handler did not return (endless recursion, or a panic)
    trace,          \* callbacks and Navigator calls made by the last handler
    ret,            \* what the last operation returned
    completions,    \* handleFormCompletion runs so far
    presented,      \* steps whose Generator returned a widget, in order
    completedLog,   \* per completion: the step and its store when its widget completed
    initGlobal,     \* global values when the first step is searched for
    merged,         \* steps whose store was merged into global data, in order
    validation,     \* what ValidateNavigation returned
    stores,         \* FormValues held by a host: the maps and the references to them
    view            \* Bobarista.renderer, the completion text and what View last returned

vars == <<forms, recipe, currentIdx, history, globalData, formValues, currentForm,
          state, errors, started, quit, diverged, trace, ret, completions, presented,
          completedLog, initGlobal, merged, validation, stores, view>>

Navigator == [forms |-> forms, currentIdx |-> currentIdx, history |-> history]

Self ==
    [navigator |-> Navigator, globalData |-> globalData, formValues |-> formValues,
     currentForm |-> currentForm, state |-> state, errors |-> errors,
     trace |-> <<>>, diverged |-> FALSE]

\* finish: handleCompletedState was called with the finish key ("enter").
\* finishErr: the error the Recipe's OnComplete returned when the finish key
\* called it (NoError: it was not called, or it returned nil).
\* target, key, value: the receiver, key and value of a FormValues operation.
NoRet == [op |-> "", arg |-> 0, idx |-> 0, err |-> NoError, ok |-> FALSE, finish |-> FALSE,
          finishErr |-> NoError, target |-> "", key |-> "", value |-> ""]

\* No FormValues are held outside the session.
NoStores == [x |-> 0, y |-> 0, heap |-> <<>>]

\* The renderer as NewRenderer builds it. text is what the completion screen
\* has to show (the DisplayCallback's result, split into lines). What View
\* last returned: of, the lines it had to show (<<>>: nothing drawn at the
\* present size), body, the lines it drew, top, the index of the first of
\* them, and footer. since: the directions of the scroll keys since then.
InitialView(text) ==
    [r |-> NewRenderer, text |-> text, of |-> <<>>, body |-> <<>>, top |-> 0,
     footer |-> FALSE, since |-> <<>>]

\* Generated(tr): the steps whose Generator returned a widget in a trace.
RECURSIVE Generated(_)
Generated(tr) ==
    IF tr = <<>> THEN <<>>
    ELSE (IF Head(tr).ev = "gen" /\ Head(tr).res = 1 THEN <<Head(tr).form>> ELSE <<>>)
            \o Generated(Tail(tr))

\* Merges(tr): the steps whose store a trace merged into global data.
RECURSIVE Merges(_)
Merges(tr) ==
    IF tr = <<>> THEN <<>>
    ELSE (IF Head(tr).ev = "merge" THEN <<Head(tr).form>> ELSE <<>>) \o Merges(Tail(tr))

\* The controller's fields after a handler returned f.
SetSelf(f) ==
    /\ currentIdx' = f.navigator.currentIdx
    /\ history' = f.navigator.history
    /\ globalData' = f.globalData
    /\ formValues' = f.formValues
    /\ currentForm' = f.currentForm
    /\ state' = f.state
    /\ errors' = f.errors
    /\ trace' = f.trace
    /\ diverged' = f.diverged
    /\ presented' = presented \o Generated(f.trace)
    /\ merged' = merged \o Merges(f.trace)

BuiltInit(fs) ==
    LET f == Build(fs) IN
    /\ forms = fs
    /\ currentIdx = f.navigator.currentIdx
    /\ history = f.navigator.history
    /\ globalData = f.globalData
    /\ formValues = f.formValues
    /\ currentForm = f.currentForm
    /\ state = f.state
    /\ errors = f.errors
    /\ started = FALSE
    /\ quit = FALSE
    /\ diverged = FALSE
    /\ trace = <<>>
    /\ ret = NoRet
    /\ completions = 0
    /\ presented = <<>>
    /\ completedLog = <<>>
    /\ initGlobal = EmptyStore
    /\ merged = <<>>
    /\ validation = <<>>

\* ----------------------------------------------------------- the session
SessionInit(kinds, recipes) ==
    \E fs \in Flows(kinds, MaxForms), r \in recipes :
        /\ RecipeSpecials(r) + Specials(fs) <= MaxSpecial
        /\ BuiltInit(fs)
        /\ recipe = r
        /\ stores = NoStores
        /\ view = InitialView(<<>>)

Init == SessionInit(SessionKinds, Recipes)

Running == started /\ ~quit /\ ~diverged

\* tea calls Init once, before any Update.
Initialize ==
    /\ ~started
    /\ started' = TRUE
    /\ \E f \in {BobaInit(Self, recipe.OnInit)} : SetSelf(f)
    /\ initGlobal' = globalData'.Values
    /\ ret' = [NoRet EXCEPT !.op = "Init"]
    /\ UNCHANGED <<forms, recipe, quit, completions, completedLog, validation, stores, view>>

KeyMsgs == {"ctrl+c", "esc", "q", "enter"}

\* Whether Update(msg) with this widget reaction runs handleFormCompletion.
Completes(msg, react) ==
    /\ msg \notin {"ctrl+c", "esc", "resize"}
    /\ state = StateActive
    /\ currentForm # NilWidget
    /\ react.done

\* What the Recipe's OnComplete does when called: it returns nil or an error.
FinishOutcomes == IF recipe.OnComplete = "none" THEN {"none"} ELSE {"ok", "err", "errCS"}

Deliver(msg, react, finish) ==
    LET cur == Current(Navigator) IN
    \E r \in {Update(Self, msg, react, finish)} :
       /\ Completes(msg, react) => completions < MaxCompletions
       /\ SetSelf(r.f)
       /\ quit' = r.quit
       /\ ret' = [NoRet EXCEPT !.op = "Update", !.ok = r.quit,
                                !.finish = (msg = "enter" /\ state # StateActive),
                                !.finishErr =
                                    IF msg = "enter" /\ state = StateCompleted
                                       /\ FinishFails(finish)
                                    THEN FinishError(finish) ELSE NoError]
       /\ completions' = IF Completes(msg, react) THEN completions + 1 ELSE completions
       /\ completedLog' =
            IF Completes(msg, react) /\ cur # NilForm
            THEN Append(completedLog,
                        [form |-> currentIdx, id |-> cur.ID,
                         local |-> updateCurrentForm(
                                     Self, [react EXCEPT !.done = FALSE]).formValues[cur.ID]])
            ELSE completedLog
       /\ UNCHANGED <<forms, recipe, started, initGlobal, validation, stores>>

UpdateKey ==
    /\ Running
    /\ \E key \in KeyMsgs, react \in WidgetReactions, finish \in FinishOutcomes :
            Deliver(key, react, finish)
    /\ UNCHANGED view

UpdateOther ==
    /\ Running
    /\ \E react \in WidgetReactions : Deliver("other", react, "none")
    /\ UNCHANGED view

\* The terminal height NewRenderer assumes: 24 lines of content and 4 of frame.
DefaultRows == 28

\* The view once the renderer has taken a terminal height.
Resized(rows) == [view EXCEPT !.r = UpdateSize(@, rows), !.of = <<>>, !.since = <<>>]

\* A tea.WindowSizeMsg: the renderer takes the size and the widget lays
\* itself out again.
UpdateResize ==
    /\ Running
    /\ Deliver("resize", [write |-> NoWrite, done |-> FALSE], "none")
    /\ view' = Resized(DefaultRows)

Next == Initialize \/ UpdateKey \/ UpdateOther \/ UpdateResize

Spec == Init /\ [][Next]_vars

\* ---------------------------------------------- the session on a screen
MaxLines == 3          \* lines of the completion text
MaxHeight == 2         \* content lines of the terminals a resize reports
MaxScrolls == 2        \* scroll keys between two calls of View

\* Flows of at most one step, with a completion text of 1..MaxLines lines
\* (strings.Split returns at least one line), numbered from 1.
ViewInit ==
    \E fs \in Flows({}, 1), n \in 1..MaxLines :
        /\ BuiltInit(fs)
        /\ recipe = NoRecipe
        /\ stores = NoStores
        /\ view = InitialView([i \in 1..n |-> i])

\* The lines the screen has to show in the present state.
ScreenLines ==
    IF state = StateError THEN ErrorText(errors)
    ELSE IF state = StateCompleted THEN view.text
    ELSE <<>>

\* A scroll key: in Completed and Error handleCompletedState hands it to the
\* renderer, while Active it goes to the widget like any other key.
UpdateScrollKey ==
    /\ Running
    /\ Len(view.since) < MaxScrolls
    /\ \E key \in {"up", "down"}, react \in WidgetReactions :
          /\ Deliver(key, react, "none")
          /\ view' = IF state = StateCompleted \/ state = StateError
                     THEN [view EXCEPT
                             !.r = HandleScroll(@, IF key = "up" THEN -1 ELSE 1),
                             !.since = Append(@, IF key = "up" THEN -1 ELSE 1)]
                     ELSE view

\* A terminal of 0 to 4 + MaxHeight rows reports its size; below 4 rows the
\* viewport's height is negative.  The huh widget lays itself out again and
\* neither writes a value nor finishes on a resize.
UpdateTerminalSize ==
    /\ Running
    /\ Deliver("resize", [write |-> NoWrite, done |-> FALSE], "none")
    /\ \E rows \in 0..(4 + MaxHeight) : view' = Resized(rows)

\* View: the renderer draws the session.  A panic in the renderer is not
\* recovered: View does not return, nothing is drawn and the program ends.
View ==
    /\ Running
    /\ \E out \in {Render(view.r, state, view.text, errors)} :
          /\ view' = IF out.panic
                     THEN [view EXCEPT !.r = out.r, !.since = <<>>]
                     ELSE [view EXCEPT !.r = out.r, !.of = ScreenLines, !.body = out.body,
                                       !.top = out.top, !.footer = out.footer,
                                       !.since = <<>>]
          /\ diverged' = out.panic
          /\ ret' = [NoRet EXCEPT !.op = IF out.panic THEN "panic" ELSE "View"]
    /\ trace' = <<>>
    /\ UNCHANGED <<forms, recipe, currentIdx, history, globalData, formValues, currentForm,
                   state, errors, started, quit, completions, presented,
                   completedLog, initGlobal, merged, validation, stores>>

ViewNext == Next \/ UpdateScrollKey \/ UpdateTerminalSize \/ View

SpecView == ViewInit /\ [][ViewNext]_vars

\* The same session over flows with custom navigation, hosted without Recipe
\* callbacks.
JumpInit == SessionInit(JumpKinds, {NoRecipe})

SpecJump == JumpInit /\ [][Next]_vars

\* The same session over flows with steps that fail.
FailInit == SessionInit(FailKinds, Recipes)

SpecFail == FailInit /\ [][Next]_vars

\* The same session over flows that revisit steps with handlers.
MergeInit == SessionInit(MergeKinds, {NoRecipe})

SpecMerge == MergeInit /\ [][Next]_vars

\* The same session over flows that jump onto steps that are skipped.
SkipInit == SessionInit(SkipKinds, {NoRecipe})

SpecSkip == SkipInit /\ [][Next]_vars

\* The same session with a host that writes through GetGlobalData, before Init
\* or between two messages.
HostKinds == {"skipGNoT", "ocSetG"}

HostInit == SessionInit(HostKinds, {NoRecipe})

\* d := GetGlobalData(); d.Values.Set(key, value)
HostSetGlobal ==
    /\ ~quit /\ ~diverged
    /\ \E key \in {"t"}, value \in Vals :
         \E d \in {GetGlobalData(Self)} :
           /\ globalData' = IF d.shared
                             THEN [globalData EXCEPT !.Values = Set(d.Values, key, value)]
                             ELSE globalData
           /\ ret' = [NoRet EXCEPT !.op = "GetGlobalData", !.target = d.ID,
                                    !.key = key, !.value = value]
    /\ trace' = <<>>
    /\ UNCHANGED <<forms, recipe, currentIdx, history, formValues, currentForm, state,
                   errors, started, quit, diverged, completions, presented, completedLog,
                   initGlobal, merged, validation, stores, view>>

HostNext == Next \/ HostSetGlobal

SpecHost == HostInit /\ [][HostNext]_vars

\* ------------------------------------------------- the Navigator alone
\* Navigator operations called directly, as by a host or a test.
NavigatorKinds == {"navM3", "navM2", "navM1", "nav0", "nav7", "skipAlways", "skipGNoT"}

GlobalChoices == {EmptyStore, Set(EmptyStore, "t", "1")}

NavInit ==
    /\ \E fs \in Flows(NavigatorKinds, MaxNavForms) : BuiltInit(fs)
    /\ recipe = NoRecipe
    /\ stores = NoStores
    /\ view = InitialView(<<>>)

SetNavigator(n) ==
    /\ currentIdx' = n.currentIdx
    /\ history' = n.history
    /\ UNCHANGED <<forms, recipe, formValues, currentForm, state, errors, started, quit,
                   diverged, completions, presented, completedLog, initGlobal, merged,
                   validation, stores, view>>

OpMoveTo ==
    \E index \in -2..(MaxNavForms + 1) :
        LET r == MoveTo(Navigator, index) IN
        /\ Len(r.n.history) <= MaxHistory
        /\ SetNavigator(r.n)
        /\ ret' = [NoRet EXCEPT !.op = "MoveTo", !.arg = index, !.err = r.err]
        /\ trace' = <<>>
        /\ UNCHANGED globalData

OpMoveToFirstValid ==
    \E g \in GlobalChoices :
        LET data == [ID |-> "global", Values |-> g]
            r == MoveToFirstValid(Navigator, data)
        IN /\ SetNavigator(r.n)
           /\ ret' = [NoRet EXCEPT !.op = "MoveToFirstValid", !.err = r.err]
           /\ trace' = r.calls
           /\ globalData' = data

OpBack ==
    LET r == Back(Navigator) IN
    /\ SetNavigator(r.n)
    /\ ret' = [NoRet EXCEPT !.op = "Back", !.ok = r.ok]
    /\ trace' = <<>>
    /\ UNCHANGED globalData

OpReset ==
    /\ SetNavigator(Reset(Navigator))
    /\ ret' = [NoRet EXCEPT !.op = "Reset"]
    /\ trace' = <<>>
    /\ UNCHANGED globalData

OpNext ==
    \E g \in GlobalChoices :
        LET data == [ID |-> "global", Values |-> g]
            r == NavNext(Navigator, data)
        IN /\ SetNavigator(r.n)
           /\ ret' = [NoRet EXCEPT !.op = "Next", !.idx = r.idx, !.err = r.err]
           /\ trace' = r.calls
           /\ globalData' = data

NavStep == OpMoveTo \/ OpMoveToFirstValid \/ OpBack \/ OpReset \/ OpNext

SpecNav == NavInit /\ [][NavStep]_vars

\* ValidateNavigation on flows whose steps may have an empty or repeated ID
\* and may lack a Generator.
ValidateIDChoices == {"", "A", "B"}

ValidateForms == {[Plain(id) EXCEPT !.Generator = g] :
                    id \in ValidateIDChoices, g \in {"none", "nil", "ok"}}

ValidateInit ==
    /\ \E n \in 0..MaxValidateForms : \E fs \in [1..n -> ValidateForms] : BuiltInit(fs)
    /\ recipe = NoRecipe
    /\ stores = NoStores
    /\ view = InitialView(<<>>)

OpValidateNavigation ==
    /\ ret.op = ""
    /\ validation' = ValidateNavigation(Navigator)
    /\ ret' = [NoRet EXCEPT !.op = "ValidateNavigation"]
    /\ trace' = <<>>
    /\ UNCHANGED <<forms, recipe, currentIdx, history, globalData, formValues, currentForm,
                   state, errors, started, quit, diverged, completions, presented,
                   completedLog, initGlobal, merged, stores, view>>

SpecValidate == ValidateInit /\ [][OpValidateNavigation]_vars

\* -------------------------------------------------- FormValues on their own
\* FormValues operations called directly, as by a host or a test. stores.x
\* and stores.y are *FormValues (0 = nil) and stores.heap[a] is the map at
\* address a; a host can put a nil *string into a map.
StoreContents == UNION {[d -> Vals \cup {NULL}] : d \in SUBSET Keys}

StoreRefs == {"x", "y"}

StoreSet(st, r, key, value) == [st EXCEPT !.heap[st[r]] = Set(@, key, value)]

StoreDelete(st, r, key) == [st EXCEPT !.heap[st[r]] = Delete(@, key)]

\* r.Merge(o): nothing happens for a nil o.
StoreMerge(st, r, o) ==
    IF st[o] = 0 THEN st
    ELSE [st EXCEPT !.heap[st[r]] = Merge(@, st.heap[st[o]])]

\* Mutant: the copy is the map itself.
StoreCopyShares(st) == [st EXCEPT !.y = st.x]

\* y = x.Copy(): the copy is a new map, at the address x does not point to.
StoreCopy(st) == [st EXCEPT !.y = 3 - st.x, !.heap[3 - st.x] = Copy(st.heap[st.x])]

StoreInit ==
    /\ BuiltInit(<<>>)
    /\ recipe = NoRecipe
    /\ \E a, b \in StoreContents, y \in 0..2 :
          /\ y # 2 => b = EmptyStore
          /\ stores = [x |-> 1, y |-> y, heap |-> <<a, b>>]
    /\ view = InitialView(<<>>)

StoreFrame ==
    UNCHANGED <<forms, recipe, currentIdx, history, globalData, formValues, currentForm,
                state, errors, started, quit, diverged, trace, completions, presented,
                completedLog, initGlobal, merged, validation, view>>

OpSet ==
    \E r \in StoreRefs, key \in Keys, value \in Vals :
        /\ stores[r] # 0
        /\ stores' = StoreSet(stores, r, key, value)
        /\ ret' = [NoRet EXCEPT !.op = "Set", !.target = r, !.key = key, !.value = value]
        /\ StoreFrame

OpGet ==
    \E r \in StoreRefs, key \in Keys :
        /\ stores[r] # 0
        /\ ret' = [NoRet EXCEPT !.op = "Get", !.target = r, !.key = key,
                                 !.value = Get(stores.heap[stores[r]], key).value,
                                 !.ok = Get(stores.heap[stores[r]], key).found]
        /\ UNCHANGED stores
        /\ StoreFrame

OpHas ==
    \E r \in StoreRefs, key \in Keys :
        /\ stores[r] # 0
        /\ ret' = [NoRet EXCEPT !.op = "Has", !.target = r, !.key = key,
                                 !.ok = Has(stores.heap[stores[r]], key)]
        /\ UNCHANGED stores
        /\ StoreFrame

OpDelete ==
    \E r \in StoreRefs, key \in Keys :
        /\ stores[r] # 0
        /\ stores' = StoreDelete(stores, r, key)
        /\ ret' = [NoRet EXCEPT !.op = "Delete", !.target = r, !.key = key]
        /\ StoreFrame

OpCopy ==
    /\ stores' = StoreCopy(stores)
    /\ ret' = [NoRet EXCEPT !.op = "Copy", !.target = "x"]
    /\ StoreFrame

\* r.Merge(o); value names o.
OpMerge ==
    \E r \in StoreRefs, o \in StoreRefs :
        /\ stores[r] # 0
        /\ stores' = StoreMerge(stores, r, o)
        /\ ret' = [NoRet EXCEPT !.op = "Merge", !.target = r, !.value = o]
        /\ StoreFrame

StoreStep == OpSet \/ OpGet \/ OpHas \/ OpDelete \/ OpCopy \/ OpMerge

SpecStore == StoreInit /\ [][StoreStep]_vars

\* ---------------------------------------------------------- properties
\* Vocabulary of the properties below, stated without the operators above.
N == Len(forms)

Iota(n) == [i \in 1..n |-> i - 1]

Last(sq) == sq[Len(sq)]

IsPrefix(a, b) == Len(a) <= Len(b) /\ \A i \in 1..Len(a) : a[i] = b[i]

HasEv(tr, ev) == \E i \in 1..Len(tr) : tr[i].ev = ev

\* b's entries written over a.
Over(a, b) == [k \in (DOMAIN a) \cup (DOMAIN b) |-> IF k \in DOMAIN b THEN b[k] ELSE a[k]]

\* Step j's skip predicate exists and returns true on empty step data and global values g.
SkipsOnEmpty(j, g) ==
    /\ forms[j + 1].ShouldSkip # "none"
    /\ CallShouldSkip(forms[j + 1], [ID |-> forms[j + 1].ID, Values |-> EmptyStore],
                      [ID |-> "global", Values |-> g])

\* The least index >= start that is not skipped on g, or -1.
SearchResult(start, g) ==
    LET ok == {j \in start..(N - 1) : ~SkipsOnEmpty(j, g)}
    IN IF ok = {} THEN -1 ELSE CHOOSE j \in ok : \A k \in ok : j <= k

NoCustomNavigation == \A i \in 1..N : forms[i].NextForm.nil

LinearFlow ==
    /\ N >= 1
    /\ NoCustomNavigation
    /\ \A i \in 1..N : forms[i].ShouldSkip \in {"none", "never"}

\* ----- C1
RECURSIVE MergedInOrder(_, _)
MergedInOrder(g, log) ==
    IF log = <<>> THEN g ELSE MergedInOrder(Over(g, Head(log).local), Tail(log))

\* What a step's OnComplete handler writes to global data.
HandlerWrites(form) ==
    IF form.OnComplete = "setG" THEN [k \in {"t"} |-> "1"] ELSE EmptyStore

RECURSIVE MergedWithHandlers(_, _)
MergedWithHandlers(g, log) ==
    IF log = <<>> THEN g
    ELSE MergedWithHandlers(Over(Over(g, HandlerWrites(forms[Head(log).form + 1])),
                                 Head(log).local),
                            Tail(log))

HandlersSucceed == \A i \in 1..N : forms[i].OnComplete \notin {"err", "errCS"}

\* C1 as stated: in a flow of N >= 1 steps with no skipped step and no custom
\* navigation, the N-th widget completion leaves the session Completed having
\* presented steps 0..N-1 in order, with global data equal to the initial global
\* data with the per-step stores merged in visitation order.
C1_AsStated ==
    [][(LinearFlow /\ completions = N - 1 /\ completions' = N)
          => /\ presented' = Iota(N)
             /\ state' = StateCompleted
             /\ globalData'.Values = MergedInOrder(initGlobal', completedLog')]_vars

\* C1 (amended): in such a flow whose OnComplete handlers return no error, the
\* steps presented are always a prefix of 0..N-1, and the N-th widget completion
\* leaves the session Completed having presented 0..N-1 in order, with global data
\* equal to the initial global data to which, per step in visitation order, the
\* handler's writes to global data and then the step's store have been applied.
C1_LinearFlow ==
    [][(LinearFlow /\ HandlersSucceed)
          => /\ IsPrefix(presented', Iota(N))
             /\ (completions = N - 1 /\ completions' = N)
                  => /\ presented' = Iota(N)
                     /\ state' = StateCompleted
                     /\ [f \in 1..N |-> completedLog'[f].form] = Iota(N)
                     /\ globalData'.Values =
                            MergedWithHandlers(initGlobal', completedLog')]_vars

C1_Witness ==
    /\ LinearFlow /\ HandlersSucceed /\ N = 3
    /\ state = StateCompleted /\ completions = 3 /\ presented = <<0, 1, 2>>
    /\ \E i \in 1..N : forms[i].OnComplete = "setG"
    /\ Get(completedLog[1].local, "v").value = "2"
    /\ Get(completedLog[3].local, "v").value = "1"
    /\ Get(globalData.Values, "v").value = "1"
    /\ Get(globalData.Values, "t").value = "1"

\* ----- C2
GlobalOnlyFlow ==
    /\ NoCustomNavigation
    /\ \A i \in 1..N : forms[i].ShouldSkip \in {"none", "always", "never", "gNoT"}

StrictlyIncreasing(sq) == \A a, b \in 1..Len(sq) : a < b => sq[a] < sq[b]

\* C2: without custom navigation and with skip predicates reading only global
\* data, each Initialize or successful step completion presents the least later
\* step that is not skipped on the global data as that completion leaves it (none:
\* Completed, or ErrNoValidForms at Initialize); Generators run only for that step,
\* OnComplete only for the step being presented, global data changes only at
\* Initialize or when a presented step completes, and the presented indices increase.
C2_SkippedStepsNeverRun ==
    [][GlobalOnlyFlow =>
        LET g == globalData'.Values
            atInit == ret'.op = "Init"
            from == IF atInit THEN -1 ELSE currentIdx
            navigated == atInit \/ HasEv(trace', "nextRet")
            j == SearchResult(from + 1, g)
        IN /\ (navigated /\ j = -1)
                => /\ presented' = presented
                   /\ currentIdx' = currentIdx
                   /\ state' = IF atInit THEN StateError ELSE StateCompleted
           /\ (navigated /\ j >= 0)
                => /\ currentIdx' = j
                   /\ (forms[j + 1].Generator = "ok"
                         => presented' = Append(presented, j) /\ state' = StateActive)
                   /\ (forms[j + 1].Generator # "ok"
                         => presented' = presented /\ state' = StateError)
           /\ ~navigated => presented' = presented
           /\ \A i \in 1..Len(trace') :
                /\ trace'[i].ev = "gen" => trace'[i].form = j /\ ~SkipsOnEmpty(j, g)
                /\ trace'[i].ev = "onComplete"
                     => /\ presented # <<>>
                        /\ trace'[i].form = Last(presented)
                /\ trace'[i].ev = "skipInit" => trace'[i].res = 0
           /\ globalData' # globalData
                => \/ atInit
                   \/ presented # <<>> /\ currentIdx = Last(presented)
                        /\ completions' = completions + 1
           /\ StrictlyIncreasing(presented')]_vars

\* A, B, C with B skipped because global data lacks "t": traversed A, C, Completed.
C2_Witness ==
    /\ GlobalOnlyFlow /\ N = 3
    /\ forms[2].ShouldSkip = "gNoT" /\ forms[2].Generator = "ok"
    /\ presented = <<0, 2>>
    /\ state = StateCompleted
    /\ completions = 2
    /\ DOMAIN globalData.Values = {"v"}

\* ----- C3
\* The last handler called a step's OnComplete and it returned an error.
OnCompleteFailed == \E i \in 1..Len(trace) : trace[i].ev = "onComplete" /\ trace[i].res = 0

\* The error returned by a step's OnComplete handler.
ReturnedError(form) ==
    CASE form.OnComplete = "err" -> [type |-> "error", FormID |-> "", Err |-> "invalid"]
      [] form.OnComplete = "errCS" -> [type |-> "CupSleeveError", FormID |-> "Z", Err |-> "invalid"]
      [] OTHER -> NoError

NoNavigation ==
    /\ ~HasEv(trace', "nextRet") /\ ~HasEv(trace', "nav") /\ ~HasEv(trace', "skip")
    /\ currentIdx' = currentIdx
    /\ history' = history

\* C3 as stated: when the completing step's OnComplete returns an error, the
\* session enters Error, the error list holds exactly one entry carrying that
\* step's ID and the handler's error, global data is left unmerged and no
\* navigation happens.
C3_AsStated ==
    [][OnCompleteFailed'
          => /\ state' = StateError
             /\ Len(errors') = 1
             /\ errors'[1].FormID = forms[currentIdx + 1].ID
             /\ errors'[1].Err = ReturnedError(forms[currentIdx + 1]).Err
             /\ globalData' = globalData
             /\ NoNavigation]_vars

\* C3 (amended): as stated, except that the single entry is the handler's error
\* wrapped with the step's ID only when that error is not already a
\* CupSleeveError; a CupSleeveError is recorded as returned, with its own form ID.
C3_HandlerErrorStops ==
    [][OnCompleteFailed'
          => LET e == ReturnedError(forms[currentIdx + 1])
             IN /\ state' = StateError
                /\ Len(errors') = 1
                /\ errors'[1] = IF e.type = "CupSleeveError" THEN e
                                ELSE [type |-> "CupSleeveError",
                                      FormID |-> forms[currentIdx + 1].ID, Err |-> e.Err]
                /\ globalData' = globalData
                /\ NoNavigation]_vars

\* Step A fails with local data that global data does not hold.
C3_Witness ==
    /\ OnCompleteFailed
    /\ state = StateError
    /\ currentIdx >= 0 /\ currentIdx < N - 1
    /\ forms[currentIdx + 1].OnComplete = "err"
    /\ Has(formValues[forms[currentIdx + 1].ID], "v")
    /\ ~Has(globalData.Values, "v")
    /\ errors = <<[type |-> "CupSleeveError", FormID |-> forms[currentIdx + 1].ID,
                   Err |-> "invalid"]>>

\* ----- C4
\* C4: once a custom-navigation function has returned -2, the handler calls no
\* skip predicate, Generator or other step callback and leaves the session
\* Completed; a Completed session presents no step and evaluates no skip predicate.
C4_TerminateSignal ==
    [][/\ \A i \in 1..Len(trace') :
            (trace'[i].ev = "nav" /\ trace'[i].res = -2)
                => /\ state' = StateCompleted
                   /\ \A k \in (i + 1)..Len(trace') : trace'[k].ev = "nextRet"
                   /\ presented' = presented
       /\ state = StateCompleted
            => /\ presented' = presented
               /\ ~HasEv(trace', "skip") /\ ~HasEv(trace', "skipInit")
               /\ ~HasEv(trace', "gen")]_vars

\* A step returned -2 although a later step with a skip predicate was waiting.
C4_Witness ==
    /\ state = StateCompleted
    /\ \E i \in 1..Len(trace) : trace[i].ev = "nav" /\ trace[i].res = -2
    /\ currentIdx >= 0 /\ currentIdx < N - 1
    /\ \E j \in (currentIdx + 2)..N : forms[j].ShouldSkip # "none"

\* ----- C5
NoSkipCalls(tr) == ~HasEv(tr, "skip") /\ ~HasEv(tr, "skipInit")

\* C5: Navigator.Next returns the default search from 0 when there is no
\* current step, the default search from current+1 when the current step has no
\* custom navigation or its function returns -1, and otherwise the function's
\* value unchanged, with no error and no skip predicate evaluated.
C5_NextResult ==
    [][ret'.op = "Next"
          => LET g == globalData'.Values
                 hasCurrent == currentIdx >= 0 /\ currentIdx < N
             IN /\ ret'.err = NoError
                /\ ~hasCurrent => ret'.idx = SearchResult(0, g)
                /\ (hasCurrent /\ forms[currentIdx + 1].NextForm.nil)
                     => ret'.idx = SearchResult(currentIdx + 1, g)
                /\ (hasCurrent /\ ~forms[currentIdx + 1].NextForm.nil)
                     => LET r == forms[currentIdx + 1].NextForm.ret
                        IN IF r = -1
                           THEN ret'.idx = SearchResult(currentIdx + 1, g)
                           ELSE ret'.idx = r /\ NoSkipCalls(trace')]_vars

\* Next returned an out-of-range value verbatim past a step that would be skipped.
C5_Witness ==
    /\ ret.op = "Next"
    /\ ret.idx = 7
    /\ ret.err = NoError
    /\ currentIdx >= 0 /\ currentIdx < N - 1
    /\ SkipsOnEmpty(currentIdx + 1, globalData.Values)

\* ----- C6
\* C6 as stated: every custom-navigation function is handed a data record with
\* the current step's ID and that step's local values.
C6_AsStated ==
    \A i \in 1..Len(trace) :
        trace[i].ev = "nav"
            => /\ trace[i].id = forms[trace[i].form + 1].ID
               /\ trace[i].id \in DOMAIN formValues
               /\ trace[i].local = formValues[trace[i].id]

\* ----- C7
\* C7: every skip predicate called by the default search receives empty step
\* data carrying the candidate step's ID, and the global data as it stands.
C7_SearchUsesEmptyLocal ==
    \A i \in 1..Len(trace) :
        trace[i].ev = "skip"
            => /\ trace[i].local = EmptyStore
               /\ trace[i].id = forms[trace[i].form + 1].ID
               /\ trace[i].global = globalData.Values

\* The search asked a predicate that reads its own step's value while that
\* step's cached store held the value: the search saw "no value", and
\* initCurrentForm, which passes the cache, then skipped the step.
C7_Witness ==
    \E i \in 1..Len(trace) :
        /\ trace[i].ev = "skip" /\ trace[i].res = 0
        /\ forms[trace[i].form + 1].ShouldSkip = "lHasV"
        /\ trace[i].id \in DOMAIN formValues
        /\ Has(formValues[trace[i].id], "v")
        /\ Has(globalData.Values, "v")
        /\ \E k \in (i + 1)..Len(trace) :
                /\ trace[k].ev = "skipInit" /\ trace[k].res = 1
                /\ trace[k].form = trace[i].form

\* ----- C8
\* C8: the current index is -1 or in [0, N) and every history entry is in [0, N).
C8_IndexInRange ==
    /\ currentIdx = -1 \/ (currentIdx >= 0 /\ currentIdx < N)
    /\ \A i \in 1..Len(history) : history[i] >= 0 /\ history[i] < N

C8_Witness ==
    /\ ret.op = "MoveTo" /\ ret.arg = -2 /\ ret.err # NoError
    /\ N = 2 /\ currentIdx = 1
    /\ history = <<0, 1>>

\* ----- C9
\* C9: MoveTo(i) with i outside [0, N) returns ErrInvalidFormIndex and leaves
\* the current index and the history as they were.
C9_InvalidMoveTo ==
    [][(ret'.op = "MoveTo" /\ (ret'.arg < 0 \/ ret'.arg >= N))
          => /\ ret'.err = [type |-> "error", FormID |-> "", Err |-> "invalid form index"]
             /\ currentIdx' = currentIdx
             /\ history' = history]_vars

C9_Witness ==
    /\ ret.op = "MoveTo" /\ ret.arg = N /\ N >= 1
    /\ ret.err = [type |-> "error", FormID |-> "", Err |-> "invalid form index"]
    /\ currentIdx = 0
    /\ history = <<1, 0>>

\* ----- C10
\* C10: each result Navigator.Next hands the controller from a step without
\* custom navigation (or whose function returned -1) is -1 exactly when every
\* later step's skip predicate returns true, in particular from the last step;
\* after a -1 result the session is Completed with no error recorded.
C10_ExhaustedSearch ==
    \A i \in 1..Len(trace) :
        trace[i].ev = "nextRet"
            => LET from == trace[i].form
                   nf == forms[from + 1].NextForm
               IN /\ (nf.nil \/ nf.ret = -1)
                     => /\ trace[i].res = -1
                            <=> \A j \in (from + 1)..(N - 1) :
                                    SkipsOnEmpty(j, trace[i].global)
                        /\ from = N - 1 => trace[i].res = -1
                  /\ trace[i].res = -1 => state = StateCompleted /\ errors = <<>>

\* Next returned -1 before the last step because the rest is skipped.
C10_Witness ==
    \E i \in 1..Len(trace) :
        /\ trace[i].ev = "nextRet" /\ trace[i].res = -1
        /\ trace[i].form < N - 1
        /\ forms[trace[i].form + 1].NextForm.nil
        /\ HasEv(trace, "skip")
        /\ state = StateCompleted

\* ----- C11
\* C11: the session starts Active, and no event (key, resize, other message,
\* widget completion) takes a session that is Completed or Error back to Active.
C11_NeverReactivated ==
    /\ state = StateActive
    /\ [][state # StateActive => state' # StateActive]_vars

\* An event was delivered to a Completed session and left it Completed.
C11_Witness ==
    /\ state = StateCompleted
    /\ ret.op = "Update" /\ ~ret.finish
    /\ trace = <<>>
    /\ completions > 0
    /\ ~quit

\* ----- C12
Entry(id, msg) == [type |-> "CupSleeveError", FormID |-> id, Err |-> msg]

\* The handler appended exactly e to the error list and entered Error.
Recorded(e) == errors' = Append(errors, e) /\ state' = StateError

\* Step j's skip predicate exists and returns true on the step's cached store
\* and the global data, as the handler leaves them.
SkipsOnCached(j) ==
    /\ forms[j + 1].ShouldSkip # "none"
    /\ forms[j + 1].ID \in DOMAIN formValues'
    /\ CallShouldSkip(forms[j + 1],
                      [ID |-> forms[j + 1].ID, Values |-> formValues'[forms[j + 1].ID]],
                      globalData')

\* The handler moved to a step, the one now current, and that step is not skipped.
ReachedStep ==
    /\ ~diverged'
    /\ (ret'.op = "Init" /\ currentIdx' >= 0) \/ history' # history
    /\ ~SkipsOnCached(currentIdx')

FinishFailed == \E i \in 1..Len(trace') : trace'[i].ev = "onFinish" /\ trace'[i].res = 0

NoValidAtInit == ret'.op = "Init" /\ SearchResult(0, globalData'.Values) = -1

OutOfRange(r) == (r < 0 \/ r >= N) /\ r # -1 /\ r # -2

\* The fatal conditions, each with the entry it records; handlerEntry is the
\* entry expected of a failed OnComplete handler of the completing step,
\* finishEntry the entry expected of a failed flow-completion callback.
FatalConditionsRecorded(handlerEntry, finishEntry) ==
    /\ FinishFailed => Recorded(finishEntry)
    /\ NoValidAtInit => Recorded(Entry("", "no valid forms found"))
    /\ OnCompleteFailed' => Recorded(handlerEntry)
    /\ \A i \in 1..Len(trace') :
          /\ (trace'[i].ev = "nextRet" /\ OutOfRange(trace'[i].res))
                => Recorded(Entry(forms[trace'[i].form + 1].ID, "invalid form index"))
          /\ (trace'[i].ev = "gen" /\ trace'[i].res = 0)
                => Recorded(Entry(forms[trace'[i].form + 1].ID, "form generator returned nil"))
    /\ (ReachedStep /\ forms[currentIdx' + 1].Generator = "none")
          => Recorded(Entry(forms[currentIdx' + 1].ID, "form generator is required"))
    /\ errors' # errors => Len(errors') = Len(errors) + 1 /\ state' = StateError
    /\ (state' = StateError /\ state # StateError) => errors' # errors
    /\ state = StateError => state' = StateError /\ errors' = errors

\* C12 as stated: every fatal condition appends one entry that carries the ID
\* of the step where it arose (the empty ID for flow-level errors) and wraps
\* the original error, and moves the session to Error, where it stays.
C12_AsStated ==
    [][FatalConditionsRecorded(
            Entry(forms[currentIdx + 1].ID, ReturnedError(forms[currentIdx + 1]).Err),
            Entry("", ret'.finishErr.Err))]_vars

\* The entry that records error e of a callback under the ID id: e wrapped
\* with id, or e itself when it already is a CupSleeveError.
EntryFor(id, e) == IF e.type = "CupSleeveError" THEN e ELSE Entry(id, e.Err)

\* C12 (amended): as stated, except that an error returned by an OnComplete
\* handler or by the flow-completion callback that already is a
\* CupSleeveError is appended as returned, carrying its own form ID.
C12_FatalConditions ==
    [][FatalConditionsRecorded(
            EntryFor(forms[currentIdx + 1].ID, ReturnedError(forms[currentIdx + 1])),
            EntryFor("", ret'.finishErr))]_vars

\* A jump out of range was recorded under the completing step, and the session
\* stayed in Error on a later event.
C12_Witness ==
    /\ state = StateError
    /\ currentIdx >= 0 /\ currentIdx < N
    /\ ~forms[currentIdx + 1].NextForm.nil
    /\ errors = <<Entry(forms[currentIdx + 1].ID, "invalid form index")>>
    /\ ret.op = "Update" /\ trace = <<>>

\* ----- C13
MergeEvents(tr) == {i \in 1..Len(tr) : tr[i].ev = "merge"}

\* C13 as stated, over a whole session: no step's store is merged twice.
C13_AsStated == \A a, b \in 1..Len(merged) : a # b => merged[a] # merged[b]

\* C13 (amended): a handler merges at most one store: the store of the step
\* whose widget completed, exactly once per completion, right after that step's
\* OnComplete handler returned without error (or at once if it has none) and
\* before Navigator.Next runs, so every skip predicate, navigation function and
\* Generator called afterwards sees the merged global data; nothing is merged
\* when the handler fails or when no widget completed, so a skipped step's
\* store is not merged. A step completed again after a jump back is merged again.
C13_MergedOnCompletion ==
    [][LET M == MergeEvents(trace')
           completing == completions' = completions + 1 /\ currentIdx >= 0 /\ currentIdx < N
       IN /\ Cardinality(M) <= 1
          /\ (completing /\ ~OnCompleteFailed') => Cardinality(M) = 1
          /\ (~completing \/ OnCompleteFailed') => M = {} /\ merged' = merged
          /\ \A i \in M :
                /\ trace'[i].form = currentIdx
                /\ presented # <<>> /\ Last(presented) = currentIdx
                /\ trace'[i].local = Last(completedLog').local
                /\ merged' = Append(merged, currentIdx)
                /\ IF forms[currentIdx + 1].OnComplete # "none"
                   THEN /\ i = 2
                        /\ trace'[1].ev = "onComplete" /\ trace'[1].res = 1
                        /\ trace'[1].form = currentIdx
                   ELSE i = 1
                /\ \A k \in (i + 1)..Len(trace') :
                      /\ trace'[k].ev \in {"nav", "skip", "nextRet", "skipInit", "gen"}
                      /\ trace'[k].global = Over(trace'[i].global, trace'[i].local)
                /\ \E k \in (i + 1)..Len(trace') : trace'[k].ev = "nextRet"]_vars

\* The handler of step 0 set "t", its store was merged, and the predicate of
\* step 1, which reads "t", then saw the merged data and let step 1 through.
C13_Witness ==
    /\ N >= 2
    /\ forms[1].OnComplete = "setG" /\ forms[2].ShouldSkip = "gNoT"
    /\ presented = <<0, 1>> /\ merged = <<0>>
    /\ Has(globalData.Values, "v")
    /\ \E k \in 1..Len(trace) :
          trace[k].ev = "skip" /\ trace[k].form = 1 /\ trace[k].res = 0
            /\ Has(trace[k].global, "v") /\ Has(trace[k].global, "t")

\* ----- C14
\* C14: when a step completes (its handler, if any, succeeding) and its
\* custom-navigation function returns a value outside [0, N) other than -1 and
\* -2, Navigator.Next hands that value back unchanged, no step is entered, the
\* session moves to Error with "invalid form index" recorded under the
\* completing step's ID, the current index and the history stay as they were,
\* and the global data keeps the completing step's merged values.
C14_OutOfRangeJump ==
    [][(/\ completions' = completions + 1
        /\ currentIdx >= 0 /\ currentIdx < N
        /\ ~OnCompleteFailed'
        /\ ~forms[currentIdx + 1].NextForm.nil
        /\ OutOfRange(forms[currentIdx + 1].NextForm.ret))
       => LET r == forms[currentIdx + 1].NextForm.ret
              L == Len(trace')
          IN /\ L >= 3
             /\ trace'[L - 2].ev = "merge"
             /\ trace'[L - 1].ev = "nav" /\ trace'[L - 1].form = currentIdx
             /\ trace'[L - 1].res = r
             /\ trace'[L].ev = "nextRet" /\ trace'[L].res = r
             /\ state' = StateError
             /\ errors' = Append(errors, Entry(forms[currentIdx + 1].ID, "invalid form index"))
             /\ currentIdx' = currentIdx /\ history' = history
             /\ presented' = presented
             /\ globalData'.Values = Over(trace'[L - 2].global, Last(completedLog').local)
             /\ \A k \in DOMAIN Last(completedLog').local :
                   k \in DOMAIN globalData'.Values
                     /\ globalData'.Values[k] = Last(completedLog').local[k]]_vars

\* Step 1, entered from step 0, completed with a written value; its function
\* returned 7: the session is in Error at index 1 and the value is in global data.
C14_Witness ==
    /\ state = StateError
    /\ N >= 2 /\ currentIdx = 1 /\ history = <<0>>
    /\ forms[2].NextForm = [nil |-> FALSE, ret |-> 7]
    /\ errors = <<Entry(forms[2].ID, "invalid form index")>>
    /\ Has(globalData.Values, "v")
    /\ completions = 2
    /\ ret.op = "Update" /\ trace # <<>> /\ Last(trace).ev = "nextRet" /\ Last(trace).res = 7

\* ----- C15
\* C15: after Initialize on a flow in which no step passes the skip check from
\* index 0 (every predicate returns true, or there is no step), the error list
\* is the single entry "no valid forms found" under the empty ID, the session
\* is in Error, no Generator was called, no widget exists and the current
\* index is still -1 with an empty history.
C15_NoValidStep ==
    (ret.op = "Init" /\ SearchResult(0, globalData.Values) = -1)
      => /\ errors = <<Entry("", "no valid forms found")>>
         /\ state = StateError
         /\ ~HasEv(trace, "gen")
         /\ presented = <<>>
         /\ currentForm = NilWidget
         /\ currentIdx = -1 /\ history = <<>>

\* Both steps of a two-step flow were asked and both asked to be skipped.
C15_Witness ==
    /\ ret.op = "Init"
    /\ N = 2
    /\ Len(trace) = 2
    /\ \A k \in 1..2 : trace[k].ev = "skip" /\ trace[k].form = k - 1 /\ trace[k].res = 1
    /\ state = StateError /\ currentIdx = -1
    /\ errors = <<Entry("", "no valid forms found")>>

\* ----- C16
\* C16: when a handler stops at a step that is not skipped, a step without a
\* Generator puts the session in Error with "form generator is required"
\* recorded for that step's ID and no Generator call; a Generator returning no
\* widget puts it in Error with "form generator returned nil" recorded for that
\* step's ID; in both cases the handler ends there, and in Error no handler
\* navigates again. A "form generator is required" entry is only ever recorded
\* for a step that was reached and not skipped, so a skipped step without a
\* Generator causes none.
C16_GeneratorErrors ==
    [][/\ ReachedStep =>
            LET j == currentIdx'
                id == forms[j + 1].ID
                L == Len(trace')
            IN /\ forms[j + 1].Generator = "none" =>
                    /\ state' = StateError
                    /\ errors' = Append(errors, Entry(id, "form generator is required"))
                    /\ \A k \in 1..L : ~(trace'[k].ev = "gen" /\ trace'[k].form = j)
                    /\ L > 0 => (trace'[L].ev \in {"nextRet", "skipInit", "skip", "onInit"})
                    /\ currentForm' = NilWidget \/ currentForm'.form # j
               /\ forms[j + 1].Generator = "nil" =>
                    /\ state' = StateError
                    /\ errors' = Append(errors, Entry(id, "form generator returned nil"))
                    /\ L > 0 /\ trace'[L].ev = "gen" /\ trace'[L].form = j /\ trace'[L].res = 0
                    /\ currentForm' = NilWidget
       /\ state = StateError =>
            /\ currentIdx' = currentIdx /\ history' = history
            /\ presented' = presented
            /\ \A k \in 1..Len(trace') : trace'[k].ev = "onFinish"
       /\ (errors' # errors /\ Last(errors').Err = "form generator is required") =>
            /\ ReachedStep
            /\ forms[currentIdx' + 1].Generator = "none"
            /\ Last(errors').FormID = forms[currentIdx' + 1].ID
       /\ \A k \in 1..Len(trace') :
            (trace'[k].ev \in {"skip", "skipInit"} /\ trace'[k].res = 1
               /\ forms[trace'[k].form + 1].Generator = "none")
            => \A e \in 1..Len(errors') :
                 ~(errors'[e].Err = "form generator is required"
                     /\ errors'[e].FormID = forms[trace'[k].form + 1].ID)]_vars

\* Step 0 was completed, step 1 (no Generator) asked to be skipped and was
\* passed over without error, and step 2 (no Generator, not skipped) stopped
\* the session.
C16_Witness ==
    /\ N = 3
    /\ forms[2].Generator = "none" /\ forms[2].ShouldSkip = "always"
    /\ forms[3].Generator = "none" /\ forms[3].ShouldSkip = "none"
    /\ presented = <<0>> /\ completions = 1
    /\ currentIdx = 2
    /\ state = StateError
    /\ errors = <<Entry(forms[3].ID, "form generator is required")>>
    /\ ret.op = "Update" /\ trace # <<>>

\* ----- C17
\* What the enter key does, finishEntry being the entry expected of a failed
\* callback: in Completed state it calls the Recipe's OnComplete callback
\* once, with the global data, when there is one; if the callback returns an
\* error, finishEntry is appended, the session moves to Error and does not
\* quit; if it returns nil, or there is no callback, the session quits in the
\* state it was in; in Error state no callback is called.
FinishKeyHandled(finishEntry) ==
    ret'.finish =>
         /\ (state = StateCompleted /\ recipe.OnComplete # "none") =>
               /\ Len(trace') = 1
               /\ trace'[1].ev = "onFinish"
               /\ trace'[1].global = globalData.Values
               /\ trace'[1].res = 0 <=> ret'.finishErr # NoError
               /\ trace'[1].res = 0 =>
                     /\ errors' = Append(errors, finishEntry)
                     /\ state' = StateError
                     /\ ~quit'
               /\ trace'[1].res = 1 =>
                     /\ quit'
                     /\ state' = StateCompleted /\ errors' = errors
         /\ (state = StateCompleted /\ recipe.OnComplete = "none") =>
               /\ trace' = <<>>
               /\ quit'
               /\ state' = StateCompleted /\ errors' = errors
         /\ state = StateError => ~HasEv(trace', "onFinish")

\* C17 as stated: an error returned by the callback is recorded under the
\* empty step ID.
C17_AsStated == [][FinishKeyHandled(Entry("", ret'.finishErr.Err))]_vars

\* C17 (amended): an error returned by the callback is recorded under the
\* empty step ID, except that an error that already is a CupSleeveError is
\* appended as returned, carrying its own form ID.
C17_FinishKey == [][FinishKeyHandled(EntryFor("", ret'.finishErr))]_vars

\* The callback returned a CupSleeveError on the enter key: the session is in
\* Error with that error, under its own form ID, as its only entry and has
\* not quit.
C17_Witness ==
    /\ ret.op = "Update" /\ ret.finish
    /\ ret.finishErr = Entry("Z", "save failed")
    /\ Len(trace) = 1 /\ trace[1].ev = "onFinish" /\ trace[1].res = 0
    /\ state = StateError
    /\ errors = <<Entry("Z", "save failed")>>
    /\ ~quit
    /\ completions > 0

\* ----- C18
EmptyIDSteps == {i \in 0..(N - 1) : forms[i + 1].ID = ""}
RepeatSteps ==
    {i \in 0..(N - 1) : forms[i + 1].ID # "" /\ \E k \in 0..(i - 1) : forms[k + 1].ID = forms[i + 1].ID}
NoGeneratorSteps == {i \in 0..(N - 1) : forms[i + 1].Generator = "none"}
FirstOccurrence(i) ==
    CHOOSE k \in 0..i : forms[k + 1].ID = forms[i + 1].ID
                          /\ \A m \in 0..(k - 1) : forms[m + 1].ID # forms[i + 1].ID
DuplicateEntry(id, first, repeat) ==
    Entry(id, "duplicate form ID '" \o id \o "' found at indices "
                \o ToString(first) \o " and " \o ToString(repeat))
Occurrences(sq, e) == Cardinality({k \in 1..Len(sq) : sq[k] = e})

\* C18: ValidateNavigation returns exactly the one error "no forms provided"
\* for an empty flow; otherwise the list it returns consists of one "form ID
\* cannot be empty" error per step with an empty ID, one duplicate-ID error per
\* step whose non-empty ID occurred at an earlier index, naming the first
\* index with that ID and the step's own index, and one "form generator is
\* required" error per step without a Generator, all of them whatever else is
\* wrong. The list is empty exactly when the flow is non-empty, all IDs are
\* non-empty and pairwise distinct, and every step has a Generator.
C18_ValidateNavigation ==
    ret.op = "ValidateNavigation" =>
      /\ N = 0 => validation = <<[type |-> "error", FormID |-> "", Err |-> "no forms provided"]>>
      /\ N > 0 =>
           /\ Len(validation) = Cardinality(EmptyIDSteps) + Cardinality(RepeatSteps)
                                   + Cardinality(NoGeneratorSteps)
           /\ Occurrences(validation, Entry("", "form ID cannot be empty"))
                 = Cardinality(EmptyIDSteps)
           /\ \A i \in RepeatSteps :
                 Occurrences(validation,
                             DuplicateEntry(forms[i + 1].ID, FirstOccurrence(i), i)) = 1
           /\ \A id \in {forms[i + 1].ID : i \in 0..(N - 1)} :
                 Occurrences(validation, Entry(id, "form generator is required"))
                   = Cardinality({i \in NoGeneratorSteps : forms[i + 1].ID = id})
      /\ validation = <<>> <=>
           /\ N > 0
           /\ \A i \in 0..(N - 1) : forms[i + 1].ID # "" /\ forms[i + 1].Generator # "none"
           /\ \A i, k \in 0..(N - 1) : i # k => forms[i + 1].ID # forms[k + 1].ID
      /\ (N = 2 /\ forms[1].ID = forms[2].ID /\ forms[1].ID # "") =>
           \E k \in 1..Len(validation) :
              validation[k] = Entry(forms[1].ID, "duplicate form ID '" \o forms[1].ID
                                                  \o "' found at indices 0 and 1")

\* Three steps share an ID and the middle one lacks a Generator: both repeats
\* are reported against index 0, and the missing Generator as well.
C18_Witness ==
    /\ ret.op = "ValidateNavigation"
    /\ N = 3
    /\ \A i \in 1..3 : forms[i].ID = "A"
    /\ forms[1].Generator = "ok" /\ forms[2].Generator = "none" /\ forms[3].Generator = "ok"
    /\ validation = <<Entry("A", "duplicate form ID 'A' found at indices 0 and 1"),
                      Entry("A", "duplicate form ID 'A' found at indices 0 and 2"),
                      Entry("A", "form generator is required")>>

\* ----- C19
\* C19: a successful MoveTo(i) makes i the current index and appends the
\* previous current index to the history when that index was >= 0, leaving
\* the history as it was when the previous index was -1. HasPrevious is false
\* after a successful MoveToFirstValid on a fresh navigator, and true after a
\* successful MoveTo that follows a successful MoveToFirstValid.
C19_MoveToHistory ==
    [][/\ (ret'.op = "MoveTo" /\ ret'.err.type = "nil") =>
            /\ currentIdx' = ret'.arg
            /\ currentIdx >= 0 => history' = Append(history, currentIdx)
            /\ currentIdx >= 0 => HasPrevious(Navigator)'
            /\ currentIdx = -1 => history' = history
       /\ (/\ ret'.op = "MoveToFirstValid" /\ ret'.err.type = "nil"
           /\ currentIdx = -1 /\ history = <<>>) =>
            ~HasPrevious(Navigator)'
       /\ (/\ ret.op = "MoveToFirstValid" /\ ret.err.type = "nil"
           /\ ret'.op = "MoveTo" /\ ret'.err.type = "nil") =>
            HasPrevious(Navigator)']_vars

\* MoveTo(1) succeeded on a navigator without a current index: index 1 is
\* current and nothing was pushed.
C19_Witness ==
    /\ ret.op = "MoveTo" /\ ret.err.type = "nil" /\ ret.arg = 1
    /\ currentIdx = 1
    /\ history = <<>>

\* ----- C20
\* C20: MoveToFirstValid never changes the history; it makes current the
\* smallest index whose skip predicate is absent or false on empty step data
\* and the given global data, returning no error, whatever the current index
\* was; when there is no such index it returns "no valid forms found" and
\* leaves the current index as it was.
C20_MoveToFirstValid ==
    [][ret'.op = "MoveToFirstValid" =>
         LET j == SearchResult(0, globalData'.Values)
         IN /\ history' = history
            /\ j >= 0 => ret'.err.type = "nil" /\ currentIdx' = j
            /\ j = -1 =>
                 /\ ret'.err = [type |-> "error", FormID |-> "", Err |-> "no valid forms found"]
                 /\ currentIdx' = currentIdx]_vars

\* Step 0 always asks to be skipped: with index 1 in the history,
\* MoveToFirstValid chose step 1 and the history still holds just that index.
C20_Witness ==
    /\ ret.op = "MoveToFirstValid" /\ ret.err.type = "nil"
    /\ N = 2 /\ forms[1].ShouldSkip = "always"
    /\ Len(trace) >= 1 /\ trace[1].ev = "skip" /\ trace[1].form = 0 /\ trace[1].res = 1
    /\ currentIdx = 1
    /\ history = <<1>>

\* ----- C21
\* C21: Back with a non-empty history makes the last history entry the
\* current index, removes that entry and returns true; with an empty history
\* it returns false and changes neither index nor history. From any state
\* with a current index, MoveTo to a valid index followed by Back gives back
\* the navigator as it was.
C21_Back ==
    [][/\ (ret'.op = "Back" /\ history # <<>>) =>
            /\ ret'.ok
            /\ currentIdx' = history[Len(history)]
            /\ history' = SubSeq(history, 1, Len(history) - 1)
       /\ (ret'.op = "Back" /\ history = <<>>) =>
            /\ ~ret'.ok
            /\ currentIdx' = currentIdx /\ history' = history
       /\ ret'.op = "Back" => forms' = forms
       /\ currentIdx >= 0 =>
            \A i \in 0..(N - 1) :
               /\ MoveTo(Navigator, i).err.type = "nil"
               /\ Back(MoveTo(Navigator, i).n) = [n |-> Navigator, ok |-> TRUE]]_vars

\* Back returned true from index 1 with history <<0, 0>>: index 0 is current
\* and one entry is left.
C21_Witness ==
    /\ ret.op = "Back" /\ ret.ok
    /\ N = 2
    /\ currentIdx = 0
    /\ history = <<0>>

\* ----- C22
\* C22: Reset, from any navigator state, leaves the current index at -1 and
\* the history empty, so HasPrevious is false, and leaves the steps as they
\* were; the navigator then equals a newly constructed one over the same steps
\* and answers Next, MoveToFirstValid, Back and HasNext as that one does.
C22_Reset ==
    [][ret'.op = "Reset" =>
         /\ currentIdx' = -1
         /\ history' = <<>>
         /\ forms' = forms
         /\ ~HasPrevious(Navigator)'
         /\ Navigator' = NewNavigator(forms)
         /\ HasNext(Navigator)' = HasNext(NewNavigator(forms))
         /\ Back(Navigator)' = Back(NewNavigator(forms))
         /\ \A g \in GlobalChoices :
               LET data == [ID |-> "global", Values |-> g]
               IN /\ NavNext(Navigator, data)' = NavNext(NewNavigator(forms), data)
                  /\ MoveToFirstValid(Navigator, data)'
                       = MoveToFirstValid(NewNavigator(forms), data)]_vars

\* A two-step navigator that had been asked for its next step was reset.
C22_Witness ==
    /\ ret.op = "Reset"
    /\ N = 2
    /\ globalData.Values # EmptyStore
    /\ currentIdx = -1 /\ history = <<>>

\* ----- C23
\* C23: HasNext is true exactly when the current index is below N - 1,
\* whatever the skip predicates: true before the first move of a non-empty
\* flow, false at the last index and false for an empty flow. When HasNext is
\* false and the current step has no custom navigation, Navigator.Next
\* returns -1 without error.
C23_HasNext ==
    [][/\ HasNext(Navigator) <=> currentIdx < N - 1
       /\ (currentIdx = -1 /\ N >= 1) => HasNext(Navigator)
       /\ currentIdx = N - 1 => ~HasNext(Navigator)
       /\ N = 0 => ~HasNext(Navigator)
       /\ (/\ ret'.op = "Next"
           /\ ~HasNext(Navigator)
           /\ (currentIdx < 0 \/ currentIdx >= N \/ forms[currentIdx + 1].NextForm.nil))
          => ret'.idx = -1 /\ ret'.err.type = "nil"]_vars

\* At index 0 of two steps HasNext is true, yet Next returned -1 because
\* step 1 asks to be skipped.
C23_Witness ==
    /\ ret.op = "Next" /\ ret.idx = -1 /\ ret.err.type = "nil"
    /\ N = 2 /\ currentIdx = 0
    /\ forms[1].NextForm.nil
    /\ forms[2].ShouldSkip = "always"
    /\ HasNext(Navigator)

\* ----- C24
\* The map the operation just returned from was called on, before and after.
Receiver == stores.heap[stores[ret'.target]]
ReceiverAfter == stores'.heap[stores'[ret'.target]]
OtherKeysKept(key) ==
    \A k \in Keys \ {key} :
       /\ k \in DOMAIN ReceiverAfter <=> k \in DOMAIN Receiver
       /\ k \in DOMAIN Receiver => ReceiverAfter[k] = Receiver[k]

\* C24: Get(k) reports found exactly when k exists with a value that is not
\* nil, and then returns that value, otherwise the empty string; Has(k) is
\* true exactly when k exists, nil value or not; neither changes a store.
\* After Set(k, v), Get(k) is (v, true), Has(k) is true and every other key is
\* as before; after Delete(k), Has(k) is false and every other key is as
\* before, and deleting an absent key changes nothing.
C24_ValueStore ==
    [][/\ ret'.op = "Get" =>
            /\ ret'.ok <=> (ret'.key \in DOMAIN Receiver /\ Receiver[ret'.key] # "nil")
            /\ ret'.value = IF ret'.ok THEN Receiver[ret'.key] ELSE ""
            /\ stores' = stores
       /\ ret'.op = "Has" =>
            /\ ret'.ok <=> ret'.key \in DOMAIN Receiver
            /\ stores' = stores
       /\ ret'.op = "Set" =>
            /\ Get(ReceiverAfter, ret'.key) = [value |-> ret'.value, found |-> TRUE]
            /\ Has(ReceiverAfter, ret'.key)
            /\ OtherKeysKept(ret'.key)
       /\ ret'.op = "Delete" =>
            /\ ~Has(ReceiverAfter, ret'.key)
            /\ ~Get(ReceiverAfter, ret'.key).found
            /\ OtherKeysKept(ret'.key)
            /\ ret'.key \notin DOMAIN Receiver => stores' = stores]_vars

\* Get did not find a key that exists with a nil value.
C24_Witness ==
    /\ ret.op = "Get" /\ ~ret.ok /\ ret.value = ""
    /\ ret.key \in DOMAIN stores.heap[stores[ret.target]]
    /\ stores.heap[stores[ret.target]][ret.key] = "nil"
    /\ Has(stores.heap[stores[ret.target]], ret.key)

\* ----- C25
\* C25: after A.Merge(B) with B not nil, A has every key of B with B's value
\* or nil for it (a nil of B replaces a value of A: Get then reports not found
\* while Has is true), every key that B lacks is in A as before, and B is as
\* before; a nil B or an empty B leaves everything unchanged; merging B once
\* more changes nothing.
C25_MergeRightBiased ==
    [][ret'.op = "Merge" =>
         /\ stores[ret'.value] = 0 => stores' = stores
         /\ stores[ret'.value] # 0 =>
               LET B == stores.heap[stores[ret'.value]]
               IN /\ \A k \in DOMAIN B :
                        /\ k \in DOMAIN ReceiverAfter /\ ReceiverAfter[k] = B[k]
                        /\ Has(ReceiverAfter, k)
                        /\ Get(ReceiverAfter, k).found <=> B[k] # "nil"
                  /\ \A k \in Keys \ DOMAIN B :
                        /\ k \in DOMAIN ReceiverAfter <=> k \in DOMAIN Receiver
                        /\ k \in DOMAIN Receiver => ReceiverAfter[k] = Receiver[k]
                  /\ stores'.heap[stores'[ret'.value]] = B
                  /\ stores'.x = stores.x /\ stores'.y = stores.y
                  /\ B = <<>> => stores' = stores
                  /\ StoreMerge(stores', ret'.target, ret'.value) = stores']_vars

\* x.Merge(y) was called with a y that holds a nil for "v" and lacks "t": x
\* has the nil for "v" and still has its value for "t".
C25_Witness ==
    /\ ret.op = "Merge" /\ ret.target = "x" /\ ret.value = "y"
    /\ stores.x = 1 /\ stores.y = 2
    /\ DOMAIN stores.heap[2] = {"v"} /\ stores.heap[2]["v"] = "nil"
    /\ stores.heap[1] = [k \in {"t", "v"} |-> IF k = "t" THEN "1" ELSE "nil"]

\* ----- C26
\* C26: y = x.Copy() leaves x as it was and makes y a map of its own with the
\* keys of x and, for each key, the value or nil that x has. From then on the
\* two are separate maps, and a Set, Delete or Merge on one of two separate
\* maps leaves the other one as it was.
C26_CopyIndependent ==
    [][/\ ret'.op = "Copy" =>
            /\ stores'.x = stores.x
            /\ stores'.heap[stores'.x] = stores.heap[stores.x]
            /\ stores'.y # 0 /\ stores'.y # stores'.x
            /\ DOMAIN stores'.heap[stores'.y] = DOMAIN stores.heap[stores.x]
            /\ \A k \in DOMAIN stores.heap[stores.x] :
                  stores'.heap[stores'.y][k] = stores.heap[stores.x][k]
       /\ (ret.op = "Copy" /\ ret'.op # "Copy") => stores'.y # stores'.x
       /\ (/\ ret'.op \in {"Set", "Delete", "Merge"}
           /\ stores.y # 0 /\ stores.y # stores.x) =>
            LET other == IF ret'.target = "x" THEN "y" ELSE "x"
            IN /\ stores'.heap[stores'[other]] = stores.heap[stores[other]]
               /\ stores'.x = stores.x /\ stores'.y = stores.y]_vars

\* The copy of a store holding a value and a nil holds the same, in a map of
\* its own.
C26_Witness ==
    /\ ret.op = "Copy"
    /\ stores.x = 1 /\ stores.y = 2
    /\ stores.heap[1] = [k \in {"t", "v"} |-> IF k = "t" THEN "2" ELSE "nil"]
    /\ stores.heap[2] = stores.heap[1]

\* ----- C27
\* C27: the record GetGlobalData returns has ID "global", and a value set
\* through it is in the session's global store: a GetGlobalData call made
\* afterwards returns it, and the first callback of every handler (skip
\* predicate, Generator, OnComplete) is handed the global values as they were
\* left, so a value set by the host is seen by the callbacks that run next.
C27_GlobalDataLive ==
    [][/\ ret'.op = "GetGlobalData" =>
            /\ ret'.target = "global"
            /\ globalData'.ID = "global"
            /\ globalData'.Values = Over(globalData.Values, [k \in {ret'.key} |-> ret'.value])
            /\ GetGlobalData(Self)'.ID = "global"
            /\ GetGlobalData(Self)'.Values = globalData'.Values
       /\ (ret'.op # "GetGlobalData" /\ trace' # <<>>) =>
            trace'[1].global = globalData.Values
       /\ (ret.op = "GetGlobalData" /\ ret'.op # "GetGlobalData" /\ trace' # <<>>) =>
            /\ ret.key \in DOMAIN trace'[1].global
            /\ trace'[1].global[ret.key] = ret.value]_vars

\* The host set "t" before Init; the predicate of step 0, which skips the
\* step when "t" is not set, saw it and step 0 was presented.
C27_Witness ==
    /\ ret.op = "Init"
    /\ N >= 1 /\ forms[1].ShouldSkip = "gNoT"
    /\ presented = <<0>>
    /\ trace # <<>> /\ trace[1].ev = "skip" /\ trace[1].form = 0 /\ trace[1].res = 0
    /\ "t" \in DOMAIN trace[1].global
    /\ globalData.Values = trace[1].global

\* ----- C28
\* C28 as stated: when a completed step's custom-navigation function returns
\* an index j in [0, N), step j's Generator is invoked and step j is the
\* presented step, whatever step j's skip predicate says.
C28_AsStated ==
    [][(/\ completions' = completions + 1 /\ ~diverged'
        /\ \E k \in 1..Len(trace') :
              trace'[k].ev = "nav" /\ trace'[k].form = currentIdx
                /\ trace'[k].res >= 0 /\ trace'[k].res < N)
       => \E k \in 1..Len(trace') :
             /\ trace'[k].ev = "nav" /\ trace'[k].form = currentIdx
             /\ \E g \in 1..Len(trace') :
                   trace'[g].ev = "gen" /\ trace'[g].form = trace'[k].res
             /\ presented' = Append(presented, trace'[k].res)]_vars

\* C28 (amended): Navigator.Next asks no skip predicate when a
\* custom-navigation function returns an index j in [0, N): it returns j at
\* once and the controller moves to step j. Step j's own skip predicate, if it
\* has one, is then asked with step j's cached store; step j's Generator is
\* invoked only if the predicate is absent or returns false, and if it returns
\* true step j gets no widget and navigation goes on from step j.
C28_JumpTargetSkipChecked ==
    [][~diverged' =>
         \A k \in 1..Len(trace') :
            (trace'[k].ev = "nav" /\ trace'[k].res >= 0 /\ trace'[k].res < N) =>
               LET j == trace'[k].res
                   L == Len(trace')
               IN /\ k + 1 <= L
                  /\ trace'[k + 1].ev = "nextRet" /\ trace'[k + 1].res = j
                  /\ k + 2 <= L
                  /\ IF forms[j + 1].ShouldSkip = "none"
                     THEN trace'[k + 2].ev = "gen" /\ trace'[k + 2].form = j
                     ELSE /\ trace'[k + 2].ev = "skipInit" /\ trace'[k + 2].form = j
                          /\ trace'[k + 2].id \in DOMAIN formValues'
                          /\ trace'[k + 2].local = formValues'[trace'[k + 2].id]
                          /\ k + 3 <= L
                          /\ trace'[k + 2].res = 0 =>
                                trace'[k + 3].ev = "gen" /\ trace'[k + 3].form = j
                          /\ trace'[k + 2].res = 1 =>
                                /\ trace'[k + 3].ev \in {"nav", "skip", "nextRet"}
                                /\ trace'[k + 3].form = j
                                    \/ trace'[k + 3].ev = "skip"]_vars

\* Step 0 jumped to step 2, which always asks to be skipped: step 2 was asked,
\* got no widget, and the flow completed with only step 0 presented.
C28_Witness ==
    /\ N = 3
    /\ forms[1].NextForm = [nil |-> FALSE, ret |-> 2]
    /\ forms[3].ShouldSkip = "always"
    /\ presented = <<0>> /\ completions = 1
    /\ currentIdx = 2 /\ history = <<0>>
    /\ state = StateCompleted
    /\ \E k \in 1..Len(trace) :
          trace[k].ev = "skipInit" /\ trace[k].form = 2 /\ trace[k].res = 1

\* ----- C29
\* The first "nextRet" event after position k of the handler's run.
NextRetAfter(k) ==
    CHOOSE r \in (k + 1)..Len(trace') :
        /\ trace'[r].ev = "nextRet"
        /\ \A m \in (k + 1)..(r - 1) : trace'[m].ev # "nextRet"

\* C29: initCurrentForm evaluates the current step's skip predicate with that
\* step's cached local store (not an empty snapshot) and the global store. If
\* it returns true the step gets no widget and the controller calls
\* Navigator.Next from the skipped step, so that the skipped step's own
\* custom-navigation function, if any, is consulted: a result of -1 or -2
\* enters Completed, a valid index is moved to and initialized in turn, and a
\* failing MoveTo enters Error under the skipped step's ID.
C29_SkipOnInitialize ==
    [][~diverged' =>
         \A k \in 1..Len(trace') :
            trace'[k].ev = "skipInit" =>
               LET e == trace'[k]
                   j == e.form
                   L == Len(trace')
                   step == forms[j + 1]
                   custom == ~step.NextForm.nil
               IN /\ e.id = step.ID /\ e.id \in DOMAIN formValues'
                  /\ e.local = formValues'[e.id]
                  /\ e.global = globalData'.Values
                  /\ e.res = BoolInt(CallShouldSkip(step, [ID |-> e.id, Values |-> e.local],
                                                    globalData'))
                  /\ k + 1 <= L
                  /\ e.res = 0 => trace'[k + 1].ev = "gen" /\ trace'[k + 1].form = j
                  /\ e.res = 1 =>
                       /\ custom => /\ trace'[k + 1].ev = "nav" /\ trace'[k + 1].form = j
                                    /\ trace'[k + 1].res = step.NextForm.ret
                       /\ \E r \in (k + 1)..L : trace'[r].ev = "nextRet"
                       /\ LET r == NextRetAfter(k)
                              t == trace'[r].res
                          IN /\ trace'[r].form = j
                             /\ \A m \in (k + 1)..(r - 1) :
                                   /\ trace'[m].ev \in {"nav", "skip"}
                                   /\ trace'[m].ev = "nav" => m = k + 1 /\ custom
                                   /\ trace'[m].ev = "skip" => trace'[m].form > j
                             /\ (custom /\ step.NextForm.ret # -1) => t = step.NextForm.ret
                             /\ (~custom \/ step.NextForm.ret = -1) =>
                                   t = SearchResult(j + 1, globalData'.Values)
                             /\ (t = -1 \/ t = -2) =>
                                   /\ r = L /\ state' = StateCompleted
                                   /\ currentIdx' = j /\ errors' = errors
                             /\ (t >= 0 /\ t < N) =>
                                   /\ r + 1 <= L
                                   /\ trace'[r + 1].ev \in {"skipInit", "gen"}
                                   /\ trace'[r + 1].form = t
                                   /\ \E h \in 1..Len(history') : history'[h] = j
                             /\ OutOfRange(t) =>
                                   /\ r = L /\ state' = StateError
                                   /\ errors' = Append(errors,
                                                       Entry(step.ID, "invalid form index"))
                                   /\ currentIdx' = j]_vars

\* Step 0 was presented and wrote "v"; step 1 jumped back to step 0, whose
\* predicate skips the step once its cached store holds "v": step 0 got no
\* second widget and the default search from step 0 presented step 1 again.
C29_Witness ==
    /\ N = 2
    /\ forms[1].ShouldSkip = "lHasV" /\ forms[2].NextForm = [nil |-> FALSE, ret |-> 0]
    /\ presented = <<0, 1, 1>> /\ completions = 2
    /\ currentIdx = 1 /\ history = <<0, 1, 0>>
    /\ state = StateActive
    /\ \E k \in 1..Len(trace) :
          /\ trace[k].ev = "skipInit" /\ trace[k].form = 0 /\ trace[k].res = 1
          /\ "v" \in DOMAIN trace[k].local
          /\ trace[k].local = formValues[forms[1].ID]

\* ----- C30
\* C30 as stated: every Init and every completion handled by Update
\* terminates: whatever the skip predicates and custom-navigation functions,
\* the chain skip -> Navigator.Next -> MoveTo -> initCurrentForm returns, and
\* then a step is presented, or the state is Completed or Error.
C30_AsStated ==
    started =>
       /\ ~diverged
       /\ \/ state = StateCompleted
          \/ state = StateError
          \/ /\ state = StateActive
             /\ currentForm # NilWidget /\ currentForm.form = currentIdx

\* ----- C31
NoRepeats(sq) == \A a, b \in 1..Len(sq) : a # b => sq[a] # sq[b]

\* C31: in a flow with no custom-navigation functions the current index
\* strictly increases at every handleFormCompletion that keeps the session
\* Active, so an Active session has seen fewer than N widget completions, the
\* session leaves Active (Completed or Error) at the N-th completion at the
\* latest, and no step is presented twice.
C31_LinearProgress ==
    [][NoCustomNavigation =>
         /\ ~diverged'
         /\ (completions' = completions + 1 /\ state' = StateActive)
               => currentIdx' > currentIdx
         /\ (started' /\ state' = StateActive)
               => completions' <= currentIdx' /\ currentIdx' < N
         /\ completions' <= N
         /\ completions' = N => state' # StateActive
         /\ NoRepeats(presented')]_vars

\* Three steps without custom navigation, all presented and completed in
\* order; the third completion ended the session.
C31_Witness ==
    /\ NoCustomNavigation /\ N = 3
    /\ presented = <<0, 1, 2>> /\ completions = 3
    /\ history = <<0, 1>> /\ currentIdx = 2
    /\ state = StateCompleted

\* ----- C32
\* The presentations before the current one: all of them when the current
\* step has no widget of its own (it was skipped, or its Generator failed).
PresentedBefore ==
    IF currentForm # NilWidget /\ currentForm.form = currentIdx /\ presented # <<>>
    THEN SubSeq(presented, 1, Len(presented) - 1)
    ELSE presented

\* C32 as stated: during a session the history holds exactly the previously
\* presented steps in order of presentation: every entry is a step for which
\* a widget was generated, a skipped step never appears, and a step presented
\* k times before the current one appears k times.
C32_AsStated ==
    (started /\ ~diverged) => history = PresentedBefore

\* ----- C33
\* C33: in every reachable session state, the state is Error if and only if
\* the error list is non-empty, and the error list holds at most one entry:
\* the first fatal error stops everything that could add another.
C33_ErrorIffErrors ==
    /\ state = StateError <=> errors # <<>>
    /\ Len(errors) <= 1

\* The flow-completion callback failed on the finish key; the session is in
\* Error with that single entry and was not quit.
C33_Witness ==
    /\ state = StateError /\ ~quit
    /\ ret.op = "Update" /\ ret.finish
    /\ errors = <<Entry("", "save failed")>>
    /\ completions >= 1

\* ----- C34
\* C34: in every state reached after Init in which the session is Active, the
\* current index is in [0, N), a widget is active, and that widget was
\* produced by the Generator of the step at the current index, in the latest
\* presentation (never a stale widget of an earlier step).
C34_ActiveWidget ==
    (started /\ ~diverged /\ state = StateActive) =>
       /\ currentIdx >= 0 /\ currentIdx < N
       /\ currentForm # NilWidget
       /\ currentForm.form = currentIdx
       /\ currentForm.id = forms[currentIdx + 1].ID
       /\ currentForm.State = "normal"
       /\ presented # <<>> /\ Last(presented) = currentIdx

\* Step 0 completed and jumped over step 1 to step 2, which is presented: the
\* active widget is step 2's.
C34_Witness ==
    /\ N = 3 /\ forms[1].NextForm = [nil |-> FALSE, ret |-> 2]
    /\ started /\ state = StateActive
    /\ completions = 1 /\ presented = <<0, 2>>
    /\ currentIdx = 2 /\ currentForm = NewWidget(2, forms[3].ID)

\* ----- C35
EvCount(tr, ev) == Cardinality({i \in 1..Len(tr) : tr[i].ev = ev})

\* handleFormCompletion ran in the step taken: it calls the step's OnComplete
\* or, when there is none, goes straight to the merge.
CompletionHandled == HasEv(trace', "onComplete") \/ HasEv(trace', "merge")

\* C35: handleFormCompletion runs only while the session is Active and
\* exactly once per completion of a presented widget: the step's OnComplete
\* is invoked once each time that step's widget completes, and nothing of it
\* runs once the session is Completed or Error, whatever message arrives.
C35_OncePerCompletion ==
    [][/\ CompletionHandled <=> completions' = completions + 1
       /\ CompletionHandled =>
            /\ state = StateActive
            /\ currentForm = NewWidget(currentIdx, forms[currentIdx + 1].ID)
            /\ presented # <<>> /\ Last(presented) = currentIdx
            /\ EvCount(trace', "merge") <= 1
            /\ EvCount(trace', "onComplete") =
                  BoolInt(forms[currentIdx + 1].OnComplete # "none")
            /\ \A i \in 1..Len(trace') :
                  trace'[i].ev \in {"onComplete", "merge"} => trace'[i].form = currentIdx
       /\ (started /\ state # StateActive) =>
            /\ ~CompletionHandled
            /\ ~HasEv(trace', "gen") /\ ~HasEv(trace', "nextRet")
            /\ presented' = presented /\ merged' = merged]_vars

\* A step with an OnComplete handler completed and ended the flow; a further
\* message arrived in Completed and ran nothing.
C35_Witness ==
    /\ state = StateCompleted /\ ~quit
    /\ ret.op = "Update" /\ trace = <<>>
    /\ completions >= 1
    /\ forms[Last(completedLog).form + 1].OnComplete # "none"

\* ----- C36
\* C36: the flow-completion callback (Recipe.OnComplete) is invoked at most
\* once per session, only in response to the finish key while the state is
\* Completed, and never when the session ended in Error or was quit while
\* Active: a call either quits the session or, on error, enters Error, and no
\* step taken from Active or Error calls it or leads from Error elsewhere.
C36_FinishCallback ==
    [][/\ EvCount(trace', "onFinish") <= 1
       /\ HasEv(trace', "onFinish") =>
            /\ state = StateCompleted /\ started /\ errors = <<>>
            /\ ret'.op = "Update" /\ ret'.finish
            /\ recipe.OnComplete # "none"
            /\ Last(trace').ev = "onFinish"
            /\ \/ quit' /\ Last(trace').res = 1 /\ state' = StateCompleted
               \/ ~quit' /\ Last(trace').res = 0 /\ state' = StateError
       /\ state # StateCompleted => ~HasEv(trace', "onFinish")
       /\ state = StateError => state' = StateError
       /\ (state = StateActive /\ quit') => state' = StateActive]_vars

\* The flow completed, the finish key was pressed, the callback was called
\* once, succeeded, and the session was quit.
C36_Witness ==
    /\ state = StateCompleted /\ quit
    /\ ret.op = "Update" /\ ret.finish /\ ret.ok
    /\ recipe.OnComplete # "none"
    /\ trace # <<>> /\ Last(trace).ev = "onFinish" /\ Last(trace).res = 1
    /\ EvCount(trace, "onFinish") = 1

\* ----- C37
\* C37: Navigator.Next is a pure query: for every navigator state and every
\* global data it leaves the current index, the history and the step list
\* unchanged, and two calls with the same navigator state and the same
\* global data return the same index.
C37_NextIsPure ==
    [][ret'.op = "Next" =>
         /\ currentIdx' = currentIdx /\ history' = history /\ forms' = forms
         /\ (ret.op = "Next" /\ globalData' = globalData) =>
               /\ ret'.idx = ret.idx /\ ret'.err = ret.err
               /\ trace' = trace]_vars

\* Next was asked on a navigator with a current step and a history, and
\* returned a step to go to; the navigator is where it was.
C37_Witness ==
    /\ ret.op = "Next" /\ ret.idx >= 0 /\ ret.idx < N /\ ret.idx # currentIdx
    /\ currentIdx >= 0 /\ history # <<>>

\* ----- C38
\* C38: Init invokes the optional init callback before it searches for the
\* first step, passing one empty data record per step in step order, so that
\* global values written by the callback are visible to the skip predicates
\* that select the first step.
C38_InitCallbackFirst ==
    [][ret'.op = "Init" =>
         LET g == globalData'.Values
             first == SearchResult(0, g)
         IN /\ EvCount(trace', "onInit") = BoolInt(recipe.OnInit # "none")
            /\ recipe.OnInit # "none" =>
                 /\ trace'[1].ev = "onInit"
                 /\ Len(trace'[1].local) = N
                 /\ \A i \in 1..N :
                       trace'[1].local[i] = [ID |-> forms[i].ID, Values |-> EmptyStore]
                 /\ trace'[1].global = globalData.Values
            /\ recipe.OnInit = "setG" => g = Set(globalData.Values, "t", "1")
            /\ \A k \in 1..Len(trace') :
                  trace'[k].ev \in {"skip", "skipInit"} =>
                     /\ trace'[k].global = g
                     /\ trace'[k].res =
                           BoolInt(CallShouldSkip(forms[trace'[k].form + 1],
                                                  [ID |-> trace'[k].id, Values |-> EmptyStore],
                                                  [ID |-> "global", Values |-> g]))
            /\ first = -1 => state' = StateError /\ currentIdx' = -1
            /\ first >= 0 => currentIdx' = first]_vars

\* Step 0 is skipped unless global data holds "t"; OnInit wrote "t", so Init
\* presented step 0.
C38_Witness ==
    /\ ret.op = "Init" /\ recipe.OnInit = "setG"
    /\ N >= 2 /\ forms[1].ShouldSkip = "gNoT"
    /\ presented = <<0>> /\ currentIdx = 0 /\ state = StateActive
    /\ trace[1].ev = "onInit" /\ Len(trace[1].local) = N
    /\ trace[2].ev = "skip" /\ trace[2].form = 0 /\ trace[2].res = 0
    /\ "t" \in DOMAIN trace[2].global

\* ----- C39
QuitKeys == {"ctrl+c", "esc"}

\* Update was called with one of the quit keys.
QuitKeyDelivered ==
    /\ Running
    /\ \E key \in QuitKeys, react \in WidgetReactions, finish \in FinishOutcomes :
          Deliver(key, react, finish)

\* C39 as stated: the quit keys ctrl+c and esc are intercepted before they are
\* forwarded to the step widget, so they never update the widget, trigger a
\* step completion or change navigator and global data; and they end the
\* session at once from every session state (Active, Completed and Error)
\* without invoking any callback.
C39_AsStated ==
    [][QuitKeyDelivered =>
         /\ quit'
         /\ trace' = <<>>
         /\ UNCHANGED <<currentForm, currentIdx, history, globalData, formValues,
                        state, errors, completions, presented, merged>>]_vars

\* ----- C40
\* C40 as stated: in Completed and Error the scroll keys move the displayed
\* window: when the text is longer than the viewport height, one scroll-down
\* key followed by a render shows the text starting one line later than the
\* render before it did (and scroll-up one line earlier), the offset being
\* clamped to [0, max(0, lines - height)].
C40_AsStated ==
    [][(/\ ret'.op = "View"
        /\ state = StateCompleted \/ state = StateError
        /\ view.of = ScreenLines /\ Len(view.since) = 1
        /\ view.r.viewport.height >= 1
        /\ Len(ScreenLines) > view.r.viewport.height)
       => LET h == view.r.viewport.height
              lines == ScreenLines
              top == max(0, min(max(0, Len(lines) - h), view.top + view.since[1]))
          IN /\ view'.top = top
             /\ view'.body = SubSeq(lines, top + 1, top + h)]_vars

====
